---- MODULE Spec2Model ----
(***************************************************************************)
(* Visa-Stay: the Schengen 90/180 day accounting of src/lib/date.ts, the  *)
(* visa-rule cache gateway of lib/visaApi.ts (checkVisaRequirements), and  *)
(* the remaining days and overstay of a regular visa (date.ts, Trips.tsx). *)
(*                                                                         *)
(* Dates.  A JavaScript Date is modelled as an integer number of hours on  *)
(* the local clock; hour 0 of calendar day d is d * HoursPerDay.  A trip's *)
(* "YYYY-MM-DD" string is represented by the number d of the calendar day  *)
(* it names, and a local date key ("YYYY-MM-DD" built from the local       *)
(* fields of a Date) by the number of the calendar day the Date falls on.  *)
(* Only structurally valid date strings are drawn as inputs.               *)
(***************************************************************************)
EXTENDS Integers, Sequences, FiniteSets, TLC

VARIABLES
    trips,            \* argument of the accountant: sequence of trip records
    referenceDate,    \* argument of the accountant: a Date (hours)
    usedResult,       \* <<>> or <<n>>: value returned by calculateSchengenDaysUsed
    remainingResult,  \* <<>> or <<n>>: value returned by calculateRemainingSchengenDays
    store,            \* visa_cache: key -> the rows stored under it (<<>> or <<row>>)
    now,              \* the clock (days)
    apiKey,           \* whether VITE_RAPIDAPI_KEY is set
    pc,               \* per call: the await checkVisaRequirements is suspended at
    key,              \* per call: <<passportCode, destinationCode>>
    row,              \* per call: the rows its select returned
    response,         \* per call: <<>> or <<status, body>> of the external lookup
    upsertArg,        \* per call: <<>> or <<row>> of the upsert it has issued
    result,           \* per call: <<>>, <<"ok", <<data>>>> or <<"error", message>>
    extCalls,         \* per call: external lookups issued
    upserts,          \* per call: upserts issued
    ioFailed,         \* per call: the I/O operations of the call that failed
    lastWriter,       \* key -> <<>> or <<p>>, the call whose upsert ran last
    stayTrip,         \* the trip of a trip card: startDate, endDate, isSchengen
    duration,         \* the duration text of the trip's visa rule
    utcOffset,        \* hours the local clock is ahead of UTC
    clock,            \* the Date new Date() returns (hours on the local clock)
    remainingDays,    \* <<>> or <<r>>: value returned by calculateRemainingDays
    card,             \* <<>> or <<c>>: what the trip card computed
    passportCountry,      \* checkVisaRequirements: the passport country name
    destinationCountry,   \* checkVisaRequirements: the destination country name
    passportCode,         \* <<>> or <<code>>: getCountryCode(passportCountry)
    destinationCode,      \* <<>> or <<code>>: getCountryCode(destinationCountry)
    anonStored,           \* localStorage: the timestamps under ANON_SEARCH_STORAGE_KEY
    storageDisabled,      \* whether localStorage throws on every access
    anonNow,              \* Date.now() on the landing page (hours)
    isAuthenticated,      \* useAuth().isAuthenticated on the landing page
    anonSearchesLeft,     \* Landing state: <<>> for null or <<n>>
    landingError,         \* Landing state: "" for null or the message
    landingLoading,       \* Landing state isLoading
    landingData,          \* Landing state visaData: <<>> for null or <<data>>
    lookupsInFlight,      \* checkVisaRequirements calls of the landing page awaited
    attempts,             \* calls of handleCheckRequirements so far
    anonLookups,          \* the times at which a lookup was started while not signed in
    authLoading,          \* useAuth().loading
    authUser,             \* useAuth().user: NoUser or a user id
    subLoading,           \* useSubscriptionStatus state loading
    subData,              \* useSubscriptionStatus state data
    effectPending,        \* the effect of useSubscriptionStatus is due to run
    queries,              \* the user_preferences queries awaited: [qid, user, isCancelled]
    issued,               \* number of queries issued so far
    reported,             \* the query whose response wrote subData last
    mounted,              \* whether RequirePaid is mounted
    subNow,               \* Date.now() in the guard
    prefs,                \* table user_preferences: user id -> row
    pageTrips,            \* Trips state trips: trip id -> "absent", "plain" or "stored"
    requestedTrips,       \* requestedTripsRef.current
    tripCalls,            \* calls of fetchVisaInfo at an await: [tripId, stage]
    visaLoading,          \* Trips state visaLoading
    visaShown,            \* trip ids with an entry in Trips state visaData
    tripsEffectDue,       \* the effect on [trips] is due to run
    pageUser,             \* whether fetchVisaInfo captured a user
    lookupFailures,       \* failed lookups so far
    failedTrips,          \* trip ids whose lookup failed at some time
    routeFiles,           \* dist/passport/<p>/<d>/index.html: pair -> <<>> or <<page>>
    routeCache,           \* table visa_cache as the route server sees it: pair -> <<>> or <<row>>
    routeNow,             \* the clock of the route server (days)
    routeApiKey,          \* whether VITE_RAPIDAPI_KEY is set
    routeReq              \* the requests: id -> position and what it did

schengenVars == <<trips, referenceDate, usedResult, remainingResult>>

callVars == <<pc, key, row, response, upsertArg, result, extCalls, upserts, ioFailed>>

cacheVars == <<store, now, apiKey, callVars, lastWriter>>

stayVars == <<stayTrip, duration, utcOffset, clock, remainingDays, card>>

countryVars == <<passportCountry, destinationCountry, passportCode, destinationCode>>

anonVars == <<anonStored, storageDisabled, anonNow, isAuthenticated, anonSearchesLeft,
              landingError, landingLoading, landingData, lookupsInFlight, attempts,
              anonLookups>>

subVars == <<authLoading, authUser, subLoading, subData, effectPending, queries, issued,
             reported, mounted, subNow, prefs>>

tripsVars == <<pageTrips, requestedTrips, tripCalls, visaLoading, visaShown, tripsEffectDue,
               pageUser, lookupFailures, failedTrips>>

routeVars == <<routeFiles, routeCache, routeNow, routeApiKey, routeReq>>

appVars == <<countryVars, anonVars, subVars, tripsVars, routeVars>>

vars == <<schengenVars, cacheVars, stayVars, appVars>>

(***************************************************************************)
(* Program constants                                                       *)
(***************************************************************************)
HoursPerDay == 24

WindowLookback == 179

\* "180-day period INCLUDING today => 180 calendar days total"
WindowDays == 180

SchengenAllowance == 90

\* "30-day database caching": the store sets expires_at 30 days after cached_at.
TtlDays == 30

\* "Approximate months as 30 days"
DaysPerMonth == 30

ANON_SEARCH_LIMIT == 3

\* ANON_SEARCH_WINDOW_MS, in hours
ANON_SEARCH_WINDOW == 24

ANON_LIMIT_ERROR == "limit reached"

(***************************************************************************)
(* Bounds of the model                                                     *)
(***************************************************************************)
MaxTrips == 2

\* The calendar day of the reference date, and the hours of day it is drawn at.
RefDay == 200

RefHours == {0, 13}

\* Calendar days the trip dates are drawn from: the day before the window
\* (RefDay - 180), its first day (RefDay - 179), a day that leaves exactly
\* 91 days up to the reference day, the reference day and the day after it.
TripDays == {RefDay - 180, RefDay - 179, RefDay - 90, RefDay, RefDay + 1}

NoDate == <<>>

\* The clock stops here.
MaxTime == 60

\* The instants the clock takes: the last instant before and the instant of
\* the expiry of entries written at time 0, at TtlDays - 1 and at TtlDays.
Times == {t \in {0, TtlDays - 1, TtlDays, 2 * TtlDays - 1, 2 * TtlDays, 2 * TtlDays + 1} :
            t <= MaxTime}

Calls == {"c1", "c2"}

Keys == {<<"US", "FR">>, <<"US", "DE">>}

\* The key concurrent calls are made on: calls on different keys touch
\* different rows, so the interleavings of interest are those on one key.
SharedKeys == {<<"US", "FR">>}

Payloads == {"rulesA", "rulesB"}

\* A response text JSON.parse rejects.
Unparseable == "unparseable"

\* An empty response text, which JSON.parse rejects as well.
EmptyText == "empty"

\* A response text that parses, to JSON without the visa data ("{}").
NoPayload == "noPayload"

Statuses == {200, 401, 404, 422, 500, 503}

\* Schengen trips: every start day with no endDate or an endDate on or after
\* it, and three malformed trips whose endDate is before their startDate
\* (inside the window, ending before it, starting after the reference date).
OrderedTrips ==
    {t \in [startDate : TripDays,
            endDate : {NoDate} \cup {<<d>> : d \in TripDays},
            isSchengen : {TRUE}] :
        t.endDate = NoDate \/ t.endDate[1] >= t.startDate}

ReversedTrips ==
    {[startDate |-> RefDay - 90, endDate |-> <<RefDay - 179>>, isSchengen |-> TRUE],
     [startDate |-> RefDay - 179, endDate |-> <<RefDay - 180>>, isSchengen |-> TRUE],
     [startDate |-> RefDay + 1, endDate |-> <<RefDay - 90>>, isSchengen |-> TRUE]}

SchengenTrips == OrderedTrips \cup ReversedTrips

OtherTrips ==
    [startDate : {RefDay - 90},
     endDate : {NoDate, <<RefDay>>},
     isSchengen : {FALSE}]

TripSet == SchengenTrips \cup OtherTrips

RECURSIVE TripLists(_)
TripLists(n) ==
    IF n = 0 THEN {<<>>}
    ELSE LET shorter == TripLists(n - 1)
         IN  shorter \cup {Append(l, t) : l \in {s \in shorter : Len(s) = n - 1}, t \in TripSet}

(***************************************************************************)
(* src/lib/date.ts                                                         *)
(***************************************************************************)
\* x.setHours(0, 0, 0, 0): local midnight of the day d falls on.
startOfLocalDay(d) == d - (d % HoursPerDay)

\* new Date(year, monthIndex, day, 0, 0, 0, 0) of the "YYYY-MM-DD" string.
parseDateInputToLocalDayStart(dateInput) == dateInput * HoursPerDay

\* `${y}-${m}-${day}` of the local fields of d.
toLocalDateKey(d) == d \div HoursPerDay

\* d.setDate(d.getDate() + n)
setDate(d, n) == d + n * HoursPerDay

\* Variant: the window start taken 180 days back instead of 179.
windowStartOf_180Back(ref) == setDate(startOfLocalDay(ref), 0 - (WindowLookback + 1))

windowStartOf(ref) == setDate(startOfLocalDay(ref), 0 - WindowLookback)

\* Variant: a trip without endDate taken as ending on its start day.
tripEndOf_OpenEndsAtStart(trip, ref) ==
    IF trip.endDate # NoDate THEN parseDateInputToLocalDayStart(trip.endDate[1])
    ELSE parseDateInputToLocalDayStart(trip.startDate)

\* tripEnd of one trip (line 160)
tripEndOf(trip, ref) ==
    IF trip.endDate # NoDate THEN parseDateInputToLocalDayStart(trip.endDate[1]) ELSE ref

\* The while loop of lines 168-172: currentDate takes the values
\* effectiveStart + k days, k = 0, 1, ..., for as long as it is <= effectiveEnd,
\* and the key of each is added to daysSet.
markDays(effectiveStart, effectiveEnd, daysSet) ==
    LET last == (effectiveEnd - effectiveStart) \div HoursPerDay
        visited == {setDate(effectiveStart, k) : k \in 0..last}
    IN  daysSet \cup {toLocalDateKey(currentDate) :
                         currentDate \in {c \in visited : c <= effectiveEnd}}

\* Variant: the trip's start is not clipped to the window start.
markTrip_NoStartClip(trip, ref, windowStart, daysSet) ==
    LET tripStart == parseDateInputToLocalDayStart(trip.startDate)
        tripEnd == tripEndOf(trip, ref)
    IN  IF tripEnd < windowStart \/ tripStart > ref
        THEN daysSet
        ELSE LET effectiveEnd == IF tripEnd < ref THEN tripEnd ELSE ref
             IN  markDays(tripStart, effectiveEnd, daysSet)

\* Variant: a trip that ends before it starts is read the other way round.
markTrip_SwapReversed(trip, ref, windowStart, daysSet) ==
    LET s == parseDateInputToLocalDayStart(trip.startDate)
        e == tripEndOf(trip, ref)
        tripStart == IF e < s THEN e ELSE s
        tripEnd == IF e < s THEN s ELSE e
    IN  IF tripEnd < windowStart \/ tripStart > ref
        THEN daysSet
        ELSE LET effectiveStart == IF tripStart > windowStart THEN tripStart ELSE windowStart
                 effectiveEnd == IF tripEnd < ref THEN tripEnd ELSE ref
             IN  markDays(effectiveStart, effectiveEnd, daysSet)

\* The body of the for loop, lines 159-172, for one trip.
markTrip(trip, ref, windowStart, daysSet) ==
    LET tripStart == parseDateInputToLocalDayStart(trip.startDate)
        tripEnd == tripEndOf(trip, ref)
    IN  IF tripEnd < windowStart \/ tripStart > ref
        THEN daysSet
        ELSE LET effectiveStart == IF tripStart > windowStart THEN tripStart ELSE windowStart
                 effectiveEnd == IF tripEnd < ref THEN tripEnd ELSE ref
             IN  markDays(effectiveStart, effectiveEnd, daysSet)

\* The for loop of lines 158-173 from trip i on.
RECURSIVE markTrips(_, _, _, _, _)
markTrips(schengenTrips, i, ref, windowStart, daysSet) ==
    IF i > Len(schengenTrips) THEN daysSet
    ELSE markTrips(schengenTrips, i + 1, ref, windowStart,
                   markTrip(schengenTrips[i], ref, windowStart, daysSet))

RECURSIVE SumPerTrip(_, _, _, _)
SumPerTrip(schengenTrips, i, ref, windowStart) ==
    IF i > Len(schengenTrips) THEN 0
    ELSE Cardinality(markTrip(schengenTrips[i], ref, windowStart, {}))
         + SumPerTrip(schengenTrips, i + 1, ref, windowStart)

\* Variant: the days of each trip are counted per trip and added up, instead
\* of being marked in one set keyed by calendar date.
calculateSchengenDaysUsed_SumPerTrip(tripList, refDate) ==
    LET ref == startOfLocalDay(refDate)
        windowStart == windowStartOf(ref)
        schengenTrips == SelectSeq(tripList, LAMBDA trip : trip.isSchengen)
    IN  SumPerTrip(schengenTrips, 1, ref, windowStart)

\* Variant: every trip is marked, whatever its isSchengen flag.
calculateSchengenDaysUsed_NoFilter(tripList, refDate) ==
    LET ref == startOfLocalDay(refDate)
        windowStart == windowStartOf(ref)
    IN  IF Len(tripList) = 0 THEN 0
        ELSE Cardinality(markTrips(tripList, 1, ref, windowStart, {}))

calculateSchengenDaysUsed(tripList, refDate) ==
    LET ref == startOfLocalDay(refDate)
        windowStart == windowStartOf(ref)
        schengenTrips == SelectSeq(tripList, LAMBDA trip : trip.isSchengen)
    IN  IF Len(schengenTrips) = 0 THEN 0
        ELSE Cardinality(markTrips(schengenTrips, 1, ref, windowStart, {}))

\* Variant: 90 - used without the floor at 0.
calculateRemainingSchengenDays_NoFloor(tripList, refDate) ==
    SchengenAllowance - calculateSchengenDaysUsed(tripList, refDate)

calculateRemainingSchengenDays(tripList, refDate) ==
    LET used == calculateSchengenDaysUsed(tripList, refDate)
    IN  IF SchengenAllowance - used > 0 THEN SchengenAllowance - used ELSE 0

(***************************************************************************)
(* The components at rest: each specification below runs one component and *)
(* leaves the others as they are here.                                     *)
(***************************************************************************)
SchengenIdle ==
    /\ trips = <<>>
    /\ referenceDate = RefDay * HoursPerDay
    /\ usedResult = <<>>
    /\ remainingResult = <<>>

CountryIdle ==
    /\ passportCountry = <<>>
    /\ destinationCountry = <<>>
    /\ passportCode = <<>>
    /\ destinationCode = <<>>

\* The landing page just mounted for a visitor who is not signed in.
AnonIdle ==
    /\ anonStored = <<>>
    /\ storageDisabled = FALSE
    /\ anonNow = 0
    /\ isAuthenticated = FALSE
    /\ anonSearchesLeft = <<ANON_SEARCH_LIMIT>>
    /\ landingError = ""
    /\ landingLoading = FALSE
    /\ landingData = <<>>
    /\ lookupsInFlight = 0
    /\ attempts = 0
    /\ anonLookups = <<>>

NoUser == "null"

Users == {"A", "B"}

\* currentPeriodEnd null
NoEnd == <<>>

\* The row of a user without preferences: maybeSingle gives null, and every
\* field read through pref?. is undefined.
NoRow == [has_free_access |-> FALSE, subscription_status |-> "null", current_period_end |-> NoEnd]

\* The initial value of data, and the value set for a visitor or on an error.
Unpaid == [hasFreeAccess |-> FALSE, subscriptionStatus |-> "null",
           currentPeriodEnd |-> NoEnd, isPaid |-> FALSE]

NoQuery == [qid |-> 0, user |-> NoUser]

\* No guarded route is open.
SubIdle ==
    /\ authLoading = TRUE
    /\ authUser = NoUser
    /\ subLoading = TRUE
    /\ subData = Unpaid
    /\ effectPending = FALSE
    /\ queries = <<>>
    /\ issued = 0
    /\ reported = NoQuery
    /\ mounted = FALSE
    /\ subNow = 0
    /\ prefs = [u \in Users |-> NoRow]

TripIds == {"t1", "t2"}

\* The Trips page just mounted, its list empty.
TripsIdle ==
    /\ pageTrips = [id \in TripIds |-> "absent"]
    /\ requestedTrips = {}
    /\ tripCalls = <<>>
    /\ visaLoading = [id \in TripIds |-> FALSE]
    /\ visaShown = {}
    /\ tripsEffectDue = FALSE
    /\ pageUser = TRUE
    /\ lookupFailures = 0
    /\ failedTrips = {}

RoutePairs == {<<"us", "fr">>, <<"us", "de">>}

Requests == {"r1", "r2"}

\* A request that has not arrived.
NoRequest ==
    [pc |-> "idle", pair |-> <<>>, sawFile |-> FALSE, readCache |-> FALSE,
     calledExternal |-> FALSE, held |-> <<>>, status |-> 0, source |-> "none",
     page |-> <<>>]

\* The route server just started, nothing pre-rendered.
RouteIdle ==
    /\ routeFiles = [k \in RoutePairs |-> <<>>]
    /\ routeCache = [k \in RoutePairs |-> <<>>]
    /\ routeNow = 0
    /\ routeApiKey = TRUE
    /\ routeReq = [r \in Requests |-> NoRequest]

AppIdle == CountryIdle /\ AnonIdle /\ SubIdle /\ TripsIdle /\ RouteIdle

(***************************************************************************)
(* Strings.  A string is the sequence of its characters.                   *)
(***************************************************************************)
\* The letters in both cases: <<upper, lower>>.
CasePairs ==
    {<<"A", "a">>, <<"B", "b">>, <<"C", "c">>, <<"D", "d">>, <<"E", "e">>,
     <<"F", "f">>, <<"G", "g">>, <<"H", "h">>, <<"I", "i">>, <<"J", "j">>,
     <<"K", "k">>, <<"L", "l">>, <<"M", "m">>, <<"N", "n">>, <<"O", "o">>,
     <<"P", "p">>, <<"Q", "q">>, <<"R", "r">>, <<"S", "s">>, <<"T", "t">>,
     <<"U", "u">>, <<"V", "v">>, <<"W", "w">>, <<"X", "x">>, <<"Y", "y">>,
     <<"Z", "z">>}

toLowerChar(c) ==
    IF \E q \in CasePairs : q[1] = c THEN (CHOOSE q \in CasePairs : q[1] = c)[2] ELSE c

toUpperChar(c) ==
    IF \E q \in CasePairs : q[2] = c THEN (CHOOSE q \in CasePairs : q[2] = c)[1] ELSE c

\* s.toLowerCase()
toLowerCase(s) == [i \in 1..Len(s) |-> toLowerChar(s[i])]

\* s.toUpperCase()
toUpperCase(s) == [i \in 1..Len(s) |-> toUpperChar(s[i])]

\* s.includes(part)
includes(s, part) ==
    \E i \in 1..(Len(s) - Len(part) + 1) : SubSeq(s, i, i + Len(part) - 1) = part

(***************************************************************************)
(* src/lib/date.ts and src/pages/Trips.tsx: the stay allowed by a regular  *)
(* visa.  The empty duration text stands for an absent duration (no visa   *)
(* rule loaded, or a rule without duration).                               *)
(***************************************************************************)
\* The calendar day the trips of the trip card start on.
StartDay == 100

\* An absent duration (undefined, or the empty string).
NoDuration == <<>>

\* "2 days", "90 DAYS", "1 month", "3 Months", "30days", "1-2 days",
\* "2 weeks", "day 2" and no duration.
Durations ==
    {<<"2", " ", "d", "a", "y", "s">>,
     <<"9", "0", " ", "D", "A", "Y", "S">>,
     <<"1", " ", "m", "o", "n", "t", "h">>,
     <<"3", " ", "M", "o", "n", "t", "h", "s">>,
     <<"3", "0", "d", "a", "y", "s">>,
     <<"1", "-", "2", " ", "d", "a", "y", "s">>,
     <<"2", " ", "w", "e", "e", "k", "s">>,
     <<"d", "a", "y", " ", "2">>,
     NoDuration}

\* New York (winter), UTC and Paris (summer).
UtcOffsets == {0 - 5, 0, 2}

ClockHours == {0, 13, 20}

\* The days around the start of the trip and around each end of visa.
ClockDays ==
    {StartDay + k : k \in {0 - 1, 0, 1, 2, 3, 4, 29, 30, 31, 32, 89, 90, 91, 92}}

\* Open-ended, ended on the second day, and ending after every end of visa.
StayTrips ==
    [startDate : {StartDay},
     endDate : {NoDate, <<StartDay + 1>>, <<StartDay + 120>>},
     isSchengen : {FALSE}]

\* Math.ceil(a / b) for b > 0
ceilDiv(a, b) == 0 - ((0 - a) \div b)

Digits == <<"0", "1", "2", "3", "4", "5", "6", "7", "8", "9">>

\* \d
isDigit(c) == \E v \in 1..Len(Digits) : Digits[v] = c

digitValue(c) == (CHOOSE v \in 1..Len(Digits) : Digits[v] = c) - 1

\* parseInt of a run of digits
RECURSIVE parseInt(_)
parseInt(digits) ==
    IF Len(digits) = 0 THEN 0
    ELSE parseInt(SubSeq(digits, 1, Len(digits) - 1)) * 10 + digitValue(digits[Len(digits)])

\* The alternatives of the unit group, in the order the pattern tries them.
UnitWords ==
    <<<<"d", "a", "y">>, <<"d", "a", "y", "s">>,
      <<"m", "o", "n", "t", "h">>, <<"m", "o", "n", "t", "h", "s">>>>

\* The end of the run of digits that starts at i: \d+ is greedy, and a
\* shorter run is followed by a digit, which neither \s* nor a unit matches.
digitsEnd(text, i) ==
    CHOOSE j \in i..Len(text) :
        /\ \A k \in i..j : isDigit(text[k])
        /\ j = Len(text) \/ ~isDigit(text[j + 1])

\* The position after the white space that starts at k (\s*; only the
\* space is drawn as white space).
skipSpace(text, k) ==
    CHOOSE m \in k..(Len(text) + 1) :
        /\ \A n \in k..(m - 1) : text[n] = " "
        /\ m = Len(text) + 1 \/ text[m] # " "

\* Variant: the words are compared as they are written.
wordAt_CaseSensitive(text, m, word) ==
    /\ m + Len(word) - 1 <= Len(text)
    /\ \A n \in 1..Len(word) : text[m + n - 1] = word[n]

\* Whether word is at position m of text, case ignored (flag i).
wordAt(text, m, word) ==
    /\ m + Len(word) - 1 <= Len(text)
    /\ \A n \in 1..Len(word) : toLowerChar(text[m + n - 1]) = word[n]

\* The text the unit group captures at position m: <<>> or <<unit>>.
unitAt(text, m) ==
    IF \E a \in 1..Len(UnitWords) : wordAt(text, m, UnitWords[a])
    THEN LET a == CHOOSE a \in 1..Len(UnitWords) :
                      /\ wordAt(text, m, UnitWords[a])
                      /\ \A b \in 1..(a - 1) : ~wordAt(text, m, UnitWords[b])
         IN  <<SubSeq(text, m, m + Len(UnitWords[a]) - 1)>>
    ELSE <<>>

\* The match of the pattern that starts at position i: <<>> or
\* <<digits, unit>>.
matchAt(text, i) ==
    IF ~isDigit(text[i]) THEN <<>>
    ELSE LET j == digitsEnd(text, i)
             u == unitAt(text, skipSpace(text, j + 1))
         IN  IF u = <<>> THEN <<>> ELSE <<SubSeq(text, i, j), u[1]>>

\* duration.match(/(\d+)\s*(day|days|month|months)/i): <<>> for null,
\* otherwise <<digits, unit>> of the leftmost match.
durationMatch(text) ==
    IF \E i \in 1..Len(text) : matchAt(text, i) # <<>>
    THEN matchAt(text, CHOOSE i \in 1..Len(text) :
                           /\ matchAt(text, i) # <<>>
                           /\ \A h \in 1..(i - 1) : matchAt(text, h) = <<>>)
    ELSE <<>>

\* totalDays of a duration the pattern matches (lines 117-125).
totalDaysOf(text) ==
    LET amount == parseInt(durationMatch(text)[1])
        unit == toLowerCase(durationMatch(text)[2])
    IN  IF includes(unit, <<"m", "o", "n", "t", "h">>)
        THEN amount * DaysPerMonth
        ELSE amount

\* parseToLocalDayStart: local midnight of the "YYYY-MM-DD" string.
parseToLocalDayStart(dateInput) == dateInput * HoursPerDay

\* new Date("YYYY-MM-DD"): a date-only string is read as midnight UTC, which
\* the local clock shows offset hours away from the local midnight.
parseDateUtc(dateInput, offset) == dateInput * HoursPerDay + offset

\* d.setHours(23, 59, 59, 999): the last instant of the local day of d.
endOfLocalDay(d) == startOfLocalDay(d) + HoursPerDay - 1

daysBetween(startDate, endDate) == ceilDiv(endDate - startDate, HoursPerDay)

\* calculateRemainingDays(startDate, duration) called at the instant today in
\* a zone offset hours ahead of UTC: <<>> for null, <<n>> otherwise.
calculateRemainingDays(startDate, text, today, offset) ==
    IF text = NoDuration \/ durationMatch(text) = <<>> THEN <<>>
    ELSE LET totalDays == totalDaysOf(text)
             start == parseDateUtc(startDate, offset)
             end == setDate(start, totalDays)
         IN  IF today > end THEN <<0>>
             ELSE IF today < start THEN <<totalDays>>
             ELSE <<daysBetween(today, end)>>

\* The remaining days and the overstay a trip card computes for a trip that
\* is not Schengen (Trips.tsx lines 906-960).  tripEnd is the object today
\* when the trip has no endDate, so its setHours moves today as well.
tripCard(trip, text, instant, offset) ==
    LET isCompleted == trip.endDate # NoDate
        midnight == startOfLocalDay(instant)
        tripStart == startOfLocalDay(parseToLocalDayStart(trip.startDate))
        tripEnd == endOfLocalDay(IF trip.endDate # NoDate
                                 THEN parseToLocalDayStart(trip.endDate[1])
                                 ELSE midnight)
        today == IF trip.endDate # NoDate THEN midnight ELSE tripEnd
        isTripActive == today >= tripStart /\ today <= tripEnd
        visaEndDate ==
            endOfLocalDay(setDate(parseToLocalDayStart(trip.startDate),
                                  totalDaysOf(text)))
        expired == /\ text # NoDuration
                   /\ isTripActive
                   /\ durationMatch(text) # <<>>
                   /\ today > visaEndDate
    IN  IF isCompleted \/ text = NoDuration
        THEN [remainingDays |-> <<>>, isOverstayed |-> FALSE, overstayDays |-> 0]
        ELSE [remainingDays |-> calculateRemainingDays(trip.startDate, text, instant, offset),
              isOverstayed |-> expired,
              overstayDays |-> IF expired
                               THEN ceilDiv(today - visaEndDate, HoursPerDay)
                               ELSE 0]

\* No trip card on display.
StayIdle ==
    /\ stayTrip = [startDate |-> StartDay, endDate |-> NoDate, isSchengen |-> FALSE]
    /\ duration = NoDuration
    /\ utcOffset = 0
    /\ clock = StartDay * HoursPerDay
    /\ remainingDays = <<>>
    /\ card = <<>>

(***************************************************************************)
(* lib/visaApi.ts: the cache gateway.  Every await of checkVisaRequirements *)
(* is a step of its own, so calls of different clients interleave at the    *)
(* store and at the external service.                                       *)
(***************************************************************************)
\* No call in progress, empty table.
CacheIdle ==
    /\ store = [k \in Keys |-> <<>>]
    /\ now = 0
    /\ apiKey = TRUE
    /\ pc = [p \in Calls |-> "idle"]
    /\ key = [p \in Calls |-> <<"US", "FR">>]
    /\ row = [p \in Calls |-> <<>>]
    /\ response = [p \in Calls |-> <<>>]
    /\ upsertArg = [p \in Calls |-> <<>>]
    /\ result = [p \in Calls |-> <<>>]
    /\ extCalls = [p \in Calls |-> 0]
    /\ upserts = [p \in Calls |-> 0]
    /\ ioFailed = [p \in Calls |-> {}]
    /\ lastWriter = [k \in Keys |-> <<>>]

\* The trigger of visa_cache: expires_at of a row written with cached_at.
expiresAtFor(cachedAt) == cachedAt + TtlDays

\* Variant: a row that was found is taken for an error.
single_Never(rows) == <<>>

\* .single(): the row when exactly one matches, an error otherwise.
single(rows) == IF Len(rows) = 1 THEN rows ELSE <<>>

\* Variant: the expired test taken strictly.
isExpired_Strict(t, expiresAt) == t > expiresAt

\* Variant: the expired test reversed.
isExpired_Reversed(t, expiresAt) == t < expiresAt

\* now >= expiresAt (line 116)
isExpired(t, expiresAt) == t >= expiresAt

\* Variant: a plain insert that ignores the conflict on the key.
upsertRows_Insert(rows, newRow) == Append(rows, newRow)

\* upsert with onConflict 'passport_code,destination_code': the row replaces
\* the one stored under the key.
upsertRows(rows, newRow) == <<newRow>>

\* The outcome of a call: the data it returned or the Error it threw.
returned(data) == <<"ok", <<data>>>>

thrown(message) == <<"error", message>>

\* Whether JSON.parse(responseText) returns (line 220).
parses(body) == body \notin {Unparseable, EmptyText}

\* data.response_data as VisaCheckResponse (line 127)
cachedData(r) == r.response_data

\* response.ok
responseOk(status) == status >= 200 /\ status <= 299

\* Variant: 422 is given the message of 404.
errorMessageFor_Merged(status) ==
    IF status = 401 THEN <<"Invalid API key">>
    ELSE IF status = 404 \/ status = 422 THEN <<"Visa information not found">>
    ELSE <<"API error", status>>

\* The message of the Error thrown for a non-2xx status (lines 206-216).
errorMessageFor(status) ==
    IF status = 401 THEN <<"Invalid API key">>
    ELSE IF status = 404 THEN <<"Visa information not found">>
    ELSE IF status = 422 THEN <<"Invalid passport or destination">>
    ELSE <<"API error", status>>

\* Variant: only the statuses with a message of their own are errors.
responseFails_KnownOnly(status) == status \in {401, 404, 422}

\* !response.ok (line 205)
responseFails(status) == ~responseOk(status)

\* Variant: the external call is issued without looking at the key.
AfterMiss_NoKeyCheck(p) ==
    /\ pc' = [pc EXCEPT ![p] = "fetch"]
    /\ extCalls' = [extCalls EXCEPT ![p] = @ + 1]
    /\ UNCHANGED result

\* The continuation of checkVisaRequirements after a cache miss (lines
\* 180-202): without a key it throws, otherwise it issues the external call.
AfterMiss(p) ==
    IF ~apiKey
    THEN /\ pc' = [pc EXCEPT ![p] = "done"]
         /\ result' = [result EXCEPT ![p] = thrown(<<"RapidAPI key is not configured">>)]
         /\ UNCHANGED extCalls
    ELSE /\ pc' = [pc EXCEPT ![p] = "fetch"]
         /\ extCalls' = [extCalls EXCEPT ![p] = @ + 1]
         /\ UNCHANGED result

\* checkVisaRequirements(passport, destination) is called: the codes are
\* resolved and the select of getCachedData is issued (lines 169-104).
Call(p, k) ==
    /\ pc[p] = "idle"
    /\ pc' = [pc EXCEPT ![p] = "select"]
    /\ key' = [key EXCEPT ![p] = k]
    /\ UNCHANGED <<store, now, apiKey, row, response, upsertArg, result, extCalls,
                   upserts, lastWriter, ioFailed, schengenVars, stayVars, appVars>>

\* The store answers the select (lines 99-104).
Select(p) ==
    /\ pc[p] = "select"
    /\ row' = [row EXCEPT ![p] = single(store[key[p]])]
    /\ pc' = [pc EXCEPT ![p] = "check"]
    /\ UNCHANGED <<store, now, apiKey, key, response, upsertArg, result, extCalls,
                   upserts, lastWriter, ioFailed, schengenVars, stayVars, appVars>>

\* getCachedData resumes (lines 107-127) and checkVisaRequirements with it
\* (lines 175-202): no row is a miss, an expired row issues the delete, a
\* fresh row is returned.
Check(p) ==
    /\ pc[p] = "check"
    /\ IF row[p] = <<>>
       THEN AfterMiss(p)
       ELSE IF isExpired(now, row[p][1].expires_at)
            THEN /\ pc' = [pc EXCEPT ![p] = "delete"]
                 /\ UNCHANGED <<result, extCalls>>
            ELSE /\ pc' = [pc EXCEPT ![p] = "done"]
                 /\ result' = [result EXCEPT ![p] = returned(cachedData(row[p][1]))]
                 /\ UNCHANGED extCalls
    /\ UNCHANGED <<store, now, apiKey, key, row, response, upsertArg, upserts,
                   lastWriter, ioFailed, schengenVars, stayVars, appVars>>

\* Variant: the expired row is left in the store.
Delete_NoEvict(p) ==
    /\ pc[p] = "delete"
    /\ AfterMiss(p)
    /\ UNCHANGED <<store, now, apiKey, key, row, response, upsertArg, upserts, lastWriter,
                   ioFailed, schengenVars, stayVars, appVars>>

\* The store runs the delete of the key (lines 118-123); getCachedData
\* returns null and the call goes on as a miss.
Delete(p) ==
    /\ pc[p] = "delete"
    /\ store' = [store EXCEPT ![key[p]] = <<>>]
    /\ AfterMiss(p)
    /\ UNCHANGED <<now, apiKey, key, row, response, upsertArg, upserts, lastWriter,
                   ioFailed, schengenVars, stayVars, appVars>>

\* Variant: whatever the answer, the external call is issued again.
Respond_Retry(p, status, body) ==
    /\ pc[p] = "fetch"
    /\ extCalls[p] < 3
    /\ extCalls' = [extCalls EXCEPT ![p] = @ + 1]
    /\ UNCHANGED <<store, now, apiKey, pc, key, row, response, upsertArg, result, upserts,
                   lastWriter, ioFailed, schengenVars, stayVars, appVars>>

\* The external service answers (lines 194-223): a non-2xx status throws, so
\* does a body JSON.parse rejects; otherwise the upsert is issued with
\* cached_at = the time of the call.
Respond(p, status, body) ==
    /\ pc[p] = "fetch"
    /\ response' = [response EXCEPT ![p] = <<status, body>>]
    /\ IF responseFails(status)
       THEN /\ pc' = [pc EXCEPT ![p] = "done"]
            /\ result' = [result EXCEPT ![p] = thrown(errorMessageFor(status))]
            /\ UNCHANGED <<upsertArg, upserts>>
       ELSE IF ~parses(body)
            THEN /\ pc' = [pc EXCEPT ![p] = "done"]
                 /\ result' = [result EXCEPT ![p] = thrown(<<"SyntaxError">>)]
                 /\ UNCHANGED <<upsertArg, upserts>>
            ELSE /\ pc' = [pc EXCEPT ![p] = "upsert"]
                 /\ upsertArg' = [upsertArg EXCEPT ![p] =
                        <<[response_data |-> body, cached_at |-> now]>>]
                 /\ upserts' = [upserts EXCEPT ![p] = @ + 1]
                 /\ UNCHANGED result
    /\ UNCHANGED <<store, now, apiKey, key, row, extCalls, lastWriter, ioFailed, schengenVars, stayVars, appVars>>

\* The store runs the upsert (lines 144-154), its trigger sets expires_at,
\* and checkVisaRequirements returns the fetched data (line 228).
Upsert(p) ==
    /\ pc[p] = "upsert"
    /\ LET arg == upsertArg[p][1]
           newRow == [response_data |-> arg.response_data,
                      cached_at |-> arg.cached_at,
                      expires_at |-> expiresAtFor(arg.cached_at)]
       IN  store' = [store EXCEPT ![key[p]] = upsertRows(@, newRow)]
    /\ lastWriter' = [lastWriter EXCEPT ![key[p]] = <<p>>]
    /\ pc' = [pc EXCEPT ![p] = "done"]
    /\ result' = [result EXCEPT ![p] = returned(upsertArg[p][1].response_data)]
    /\ upsertArg' = [upsertArg EXCEPT ![p] = <<>>]
    /\ UNCHANGED <<now, apiKey, key, row, response, extCalls, upserts, ioFailed,
                   schengenVars, stayVars, appVars>>

\* The caller has taken the result or the error; the call is over.
Return(p) ==
    /\ pc[p] = "done"
    /\ pc' = [pc EXCEPT ![p] = "idle"]
    /\ row' = [row EXCEPT ![p] = <<>>]
    /\ response' = [response EXCEPT ![p] = <<>>]
    /\ upsertArg' = [upsertArg EXCEPT ![p] = <<>>]
    /\ result' = [result EXCEPT ![p] = <<>>]
    /\ extCalls' = [extCalls EXCEPT ![p] = 0]
    /\ upserts' = [upserts EXCEPT ![p] = 0]
    /\ key' = [key EXCEPT ![p] = <<"US", "FR">>]
    /\ ioFailed' = [ioFailed EXCEPT ![p] = {}]
    /\ UNCHANGED <<store, now, apiKey, lastWriter, schengenVars, stayVars, appVars>>

\* Time passes.
Tick(t) ==
    /\ t > now
    /\ now' = t
    /\ UNCHANGED <<store, apiKey, callVars, lastWriter, schengenVars, stayVars, appVars>>

CacheInit ==
    /\ trips = <<>>
    /\ referenceDate = RefDay * HoursPerDay
    /\ usedResult = <<>>
    /\ remainingResult = <<>>
    /\ store = [k \in Keys |-> <<>>]
    /\ now = 0
    /\ apiKey \in BOOLEAN
    /\ pc = [p \in Calls |-> "idle"]
    /\ key = [p \in Calls |-> <<"US", "FR">>]
    /\ row = [p \in Calls |-> <<>>]
    /\ response = [p \in Calls |-> <<>>]
    /\ upsertArg = [p \in Calls |-> <<>>]
    /\ result = [p \in Calls |-> <<>>]
    /\ extCalls = [p \in Calls |-> 0]
    /\ upserts = [p \in Calls |-> 0]
    /\ ioFailed = [p \in Calls |-> {}]
    /\ lastWriter = [k \in Keys |-> <<>>]
    /\ StayIdle
    /\ AppIdle

\* The body a response carries: a payload or an unparseable text with 2xx,
\* of no account otherwise.
BodiesOf(status) == IF responseOk(status) THEN Payloads \cup {Unparseable} ELSE {""}

CacheNext ==
    \/ \E p \in Calls, k \in SharedKeys : Call(p, k)
    \/ \E p \in Calls : Select(p)
    \/ \E p \in Calls : Check(p)
    \/ \E p \in Calls : Delete(p)
    \/ \E p \in Calls, status \in Statuses : \E body \in BodiesOf(status) : Respond(p, status, body)
    \/ \E p \in Calls : Upsert(p)
    \/ \E p \in Calls : Return(p)
    \/ \E t \in Times : Tick(t)

CacheSpec == CacheInit /\ [][CacheNext]_vars

\* One client at a time: a call starts only when no other is in progress.
SeqCall(p, k) ==
    /\ \A q \in Calls : pc[q] = "idle"
    /\ Call(p, k)

CacheSeqNext ==
    \/ \E p \in Calls, k \in Keys : SeqCall(p, k)
    \/ \E p \in Calls : Select(p)
    \/ \E p \in Calls : Check(p)
    \/ \E p \in Calls : Delete(p)
    \/ \E p \in Calls, status \in Statuses : \E body \in BodiesOf(status) : Respond(p, status, body)
    \/ \E p \in Calls : Upsert(p)
    \/ \E p \in Calls : Return(p)
    \/ \E t \in Times : Tick(t)

CacheSeqSpec == CacheInit /\ [][CacheSeqNext]_vars

(***************************************************************************)
(* The gateway when its collaborators fail: the store may answer a select,  *)
(* a delete or an upsert with an error, the external call may be rejected,  *)
(* and a 2xx answer may carry an empty text or JSON without the visa data.  *)
(* One client at a time.                                                    *)
(***************************************************************************)
\* The select fails: error is set, getCachedData returns null (lines
\* 107-109, 128-131) and the call goes on as a miss when it resumes.
SelectFails(p) ==
    /\ pc[p] = "select"
    /\ row' = [row EXCEPT ![p] = <<>>]
    /\ pc' = [pc EXCEPT ![p] = "check"]
    /\ ioFailed' = [ioFailed EXCEPT ![p] = @ \cup {"read"}]
    /\ UNCHANGED <<store, now, apiKey, key, response, upsertArg, result, extCalls,
                   upserts, lastWriter, schengenVars, stayVars, appVars>>

\* The delete fails: its result is not looked at (lines 118-123), the row
\* stays and the call goes on as a miss.
DeleteFails(p) ==
    /\ pc[p] = "delete"
    /\ AfterMiss(p)
    /\ ioFailed' = [ioFailed EXCEPT ![p] = @ \cup {"delete"}]
    /\ UNCHANGED <<store, now, apiKey, key, row, response, upsertArg, upserts,
                   lastWriter, schengenVars, stayVars, appVars>>

\* fetch rejects (line 194): the exception leaves checkVisaRequirements.
FetchRejects(p) ==
    /\ pc[p] = "fetch"
    /\ pc' = [pc EXCEPT ![p] = "done"]
    /\ result' = [result EXCEPT ![p] = thrown(<<"TypeError", "fetch failed">>)]
    /\ ioFailed' = [ioFailed EXCEPT ![p] = @ \cup {"fetch"}]
    /\ UNCHANGED <<store, now, apiKey, key, row, response, upsertArg, extCalls,
                   upserts, lastWriter, schengenVars, stayVars, appVars>>

\* The upsert fails: setCachedData logs the error (lines 156-161) and
\* checkVisaRequirements returns the fetched data (line 228).
UpsertFails(p) ==
    /\ pc[p] = "upsert"
    /\ pc' = [pc EXCEPT ![p] = "done"]
    /\ result' = [result EXCEPT ![p] = returned(upsertArg[p][1].response_data)]
    /\ upsertArg' = [upsertArg EXCEPT ![p] = <<>>]
    /\ ioFailed' = [ioFailed EXCEPT ![p] = @ \cup {"upsert"}]
    /\ UNCHANGED <<store, now, apiKey, key, row, response, extCalls, upserts,
                   lastWriter, schengenVars, stayVars, appVars>>

\* The texts a 2xx response may carry, the invalid ones included.
AnyBodiesOf(status) ==
    IF responseOk(status) THEN Payloads \cup {Unparseable, EmptyText, NoPayload} ELSE {""}

CacheFaultNext ==
    \/ \E p \in Calls, k \in SharedKeys : SeqCall(p, k)
    \/ \E p \in Calls : Select(p)
    \/ \E p \in Calls : SelectFails(p)
    \/ \E p \in Calls : Check(p)
    \/ \E p \in Calls : Delete(p)
    \/ \E p \in Calls : DeleteFails(p)
    \/ \E p \in Calls, status \in Statuses : \E body \in AnyBodiesOf(status) : Respond(p, status, body)
    \/ \E p \in Calls : FetchRejects(p)
    \/ \E p \in Calls : Upsert(p)
    \/ \E p \in Calls : UpsertFails(p)
    \/ \E p \in Calls : Return(p)
    \/ \E t \in Times : Tick(t)

CacheFaultSpec == CacheInit /\ [][CacheFaultNext]_vars

(***************************************************************************)
(* The accountant as a state machine: the arguments are drawn in the       *)
(* initial state, each action is one call.                                 *)
(***************************************************************************)
SchengenInit ==
    /\ trips \in TripLists(MaxTrips)
    /\ referenceDate \in {RefDay * HoursPerDay + h : h \in RefHours}
    /\ usedResult = <<>>
    /\ remainingResult = <<>>
    /\ CacheIdle
    /\ StayIdle
    /\ AppIdle

CallDaysUsed ==
    /\ usedResult = <<>>
    /\ usedResult' = <<calculateSchengenDaysUsed(trips, referenceDate)>>
    /\ UNCHANGED <<trips, referenceDate, remainingResult, cacheVars, stayVars, appVars>>

CallDaysRemaining ==
    /\ remainingResult = <<>>
    /\ remainingResult' = <<calculateRemainingSchengenDays(trips, referenceDate)>>
    /\ UNCHANGED <<trips, referenceDate, usedResult, cacheVars, stayVars, appVars>>

SchengenNext == CallDaysUsed \/ CallDaysRemaining

SchengenSpec == SchengenInit /\ [][SchengenNext]_vars

(***************************************************************************)
(* lib/visaApi.ts: getCountryCode.  The table countryNameToCode is given   *)
(* as the sequence of its entries in the order Object.entries lists them.  *)
(***************************************************************************)
\* Niger, Nigeria and Oman: a name that is part of the name after it.
countryNameToCode ==
    <<[name |-> <<"N", "i", "g", "e", "r">>, code |-> <<"N", "E">>],
      [name |-> <<"N", "i", "g", "e", "r", "i", "a">>, code |-> <<"N", "G">>],
      [name |-> <<"O", "m", "a", "n">>, code |-> <<"O", "M">>]>>

\* "Oman", "Nigeria", "Lagos, Nigeria", "nigeria", "oma", "Peru", "p", "",
\* "Oman, Peru", "Niger,Oman", "OMAN", "Niger , Oman ".
CountryNames ==
    {<<"O", "m", "a", "n">>,
     <<"N", "i", "g", "e", "r", "i", "a">>,
     <<"L", "a", "g", "o", "s", ",", " ", "N", "i", "g", "e", "r", "i", "a">>,
     <<"n", "i", "g", "e", "r", "i", "a">>,
     <<"o", "m", "a">>,
     <<"P", "e", "r", "u">>,
     <<"p">>,
     <<>>,
     <<"O", "m", "a", "n", ",", " ", "P", "e", "r", "u">>,
     <<"N", "i", "g", "e", "r", ",", "O", "m", "a", "n">>,
     <<"O", "M", "A", "N">>,
     <<"N", "i", "g", "e", "r", " ", ",", " ", "O", "m", "a", "n", " ">>}

\* countryNameToCode[key]: <<>> for undefined, <<code>> otherwise.
tableLookup(k) ==
    IF \E e \in 1..Len(countryNameToCode) : countryNameToCode[e].name = k
    THEN <<countryNameToCode[CHOOSE e \in 1..Len(countryNameToCode) :
                                 countryNameToCode[e].name = k].code>>
    ELSE <<>>

\* s.split(',').length > 1
hasComma(s) == \E i \in 1..Len(s) : s[i] = ","

\* parts[parts.length - 1] of s.split(',')
lastPart(s) ==
    IF hasComma(s)
    THEN LET c == CHOOSE i \in 1..Len(s) :
                      s[i] = "," /\ \A j \in (i + 1)..Len(s) : s[j] # ","
         IN  SubSeq(s, c + 1, Len(s))
    ELSE s

\* s.trim()
trim(s) ==
    IF \A i \in 1..Len(s) : s[i] = " " THEN <<>>
    ELSE LET a == CHOOSE i \in 1..Len(s) : s[i] # " " /\ \A j \in 1..(i - 1) : s[j] = " "
             b == CHOOSE i \in 1..Len(s) : s[i] # " " /\ \A j \in (i + 1)..Len(s) : s[j] = " "
         IN  SubSeq(s, a, b)

\* The test of the loop of lines 77-83 for entry e.
partialMatch(e, lowerName) ==
    LET name == toLowerCase(countryNameToCode[e].name)
    IN  name = lowerName \/ includes(name, lowerName) \/ includes(lowerName, name)

\* countryName.substring(0, 2).toUpperCase()
fallbackCode(countryName) ==
    toUpperCase(SubSeq(countryName, 1, IF Len(countryName) < 2 THEN Len(countryName) ELSE 2))

\* Variant: the partial match is tried before the part after the comma.
getCountryCode_PartialFirst(countryName) ==
    LET lowerName == toLowerCase(countryName)
        countryPart == trim(lastPart(countryName))
    IN  IF tableLookup(countryName) # <<>> THEN tableLookup(countryName)[1]
        ELSE IF \E e \in 1..Len(countryNameToCode) : partialMatch(e, lowerName)
        THEN countryNameToCode[CHOOSE e \in 1..Len(countryNameToCode) :
                                   /\ partialMatch(e, lowerName)
                                   /\ \A f \in 1..(e - 1) : ~partialMatch(f, lowerName)].code
        ELSE IF hasComma(countryName) /\ tableLookup(countryPart) # <<>>
        THEN tableLookup(countryPart)[1]
        ELSE fallbackCode(countryName)

getCountryCode(countryName) ==
    LET lowerName == toLowerCase(countryName)
        countryPart == trim(lastPart(countryName))
    IN  IF tableLookup(countryName) # <<>> THEN tableLookup(countryName)[1]
        ELSE IF hasComma(countryName) /\ tableLookup(countryPart) # <<>>
        THEN tableLookup(countryPart)[1]
        ELSE IF \E e \in 1..Len(countryNameToCode) : partialMatch(e, lowerName)
        THEN countryNameToCode[CHOOSE e \in 1..Len(countryNameToCode) :
                                   /\ partialMatch(e, lowerName)
                                   /\ \A f \in 1..(e - 1) : ~partialMatch(f, lowerName)].code
        ELSE fallbackCode(countryName)

\* The two names of a call of checkVisaRequirements are drawn and resolved
\* (lines 169-170).
CountryInit ==
    /\ passportCountry \in CountryNames
    /\ destinationCountry \in CountryNames
    /\ passportCode = <<>>
    /\ destinationCode = <<>>
    /\ SchengenIdle
    /\ CacheIdle
    /\ StayIdle
    /\ AnonIdle
    /\ SubIdle
    /\ TripsIdle
    /\ RouteIdle

ResolvePassport ==
    /\ passportCode = <<>>
    /\ passportCode' = <<getCountryCode(passportCountry)>>
    /\ UNCHANGED <<passportCountry, destinationCountry, destinationCode,
                   schengenVars, cacheVars, stayVars, anonVars, subVars, tripsVars, routeVars>>

ResolveDestination ==
    /\ destinationCode = <<>>
    /\ destinationCode' = <<getCountryCode(destinationCountry)>>
    /\ UNCHANGED <<passportCountry, destinationCountry, passportCode,
                   schengenVars, cacheVars, stayVars, anonVars, subVars, tripsVars, routeVars>>

CountryNext == ResolvePassport \/ ResolveDestination

CountrySpec == CountryInit /\ [][CountryNext]_vars

(***************************************************************************)
(* The stay of a regular visa as a state machine: a trip, the duration of  *)
(* its visa rule, the zone and the instant are drawn; the remaining days   *)
(* are computed and the trip card is rendered, once each.                  *)
(***************************************************************************)
StayInit ==
    /\ stayTrip \in StayTrips
    /\ duration \in Durations
    /\ utcOffset \in UtcOffsets
    /\ clock \in {d * HoursPerDay + h : d \in ClockDays, h \in ClockHours}
    /\ remainingDays = <<>>
    /\ card = <<>>
    /\ trips = <<>>
    /\ referenceDate = RefDay * HoursPerDay
    /\ usedResult = <<>>
    /\ remainingResult = <<>>
    /\ CacheIdle
    /\ AppIdle

CallRemainingDays ==
    /\ remainingDays = <<>>
    /\ remainingDays' = <<calculateRemainingDays(stayTrip.startDate, duration, clock, utcOffset)>>
    /\ UNCHANGED <<stayTrip, duration, utcOffset, clock, card, schengenVars, cacheVars, appVars>>

RenderTripCard ==
    /\ card = <<>>
    /\ card' = <<tripCard(stayTrip, duration, clock, utcOffset)>>
    /\ UNCHANGED <<stayTrip, duration, utcOffset, clock, remainingDays, schengenVars, cacheVars, appVars>>

StayNext == CallRemainingDays \/ RenderTripCard

StaySpec == StayInit /\ [][StayNext]_vars

(***************************************************************************)
(* The landing page: the limit on searches of a visitor who is not signed  *)
(* in.  Time is counted in hours.                                          *)
(***************************************************************************)
\* Calls of handleCheckRequirements in a behaviour.
MaxAttempts == 5

\* The clock stops here.
MaxAnonTime == 26

\* The instants of the landing page: two in the first hour, and the instants
\* at which the timestamps written then leave the window.
AnonTimes == {t \in {0, 1, ANON_SEARCH_WINDOW, ANON_SEARCH_WINDOW + 1, ANON_SEARCH_WINDOW + 2} :
                t <= MaxAnonTime}

\* Math.max(0, n)
atLeastZero(n) == IF n > 0 THEN n ELSE 0

\* readAnonSearchTimestamps: what localStorage holds, nothing when it throws.
readAnonSearchTimestamps == IF storageDisabled THEN <<>> ELSE anonStored

\* writeAnonSearchTimestamps: the value localStorage holds afterwards; an
\* exception of setItem is ignored.
writeAnonSearchTimestamps(timestamps) == IF storageDisabled THEN anonStored ELSE timestamps

pruneAnonSearchTimestamps(t, timestamps) ==
    SelectSeq(timestamps, LAMBDA u : u >= t - ANON_SEARCH_WINDOW)

\* Variant: a fourth search is allowed.
getAnonSearchAllowance_OffByOne(t) ==
    LET pruned == pruneAnonSearchTimestamps(t, readAnonSearchTimestamps)
        remaining == atLeastZero(ANON_SEARCH_LIMIT - Len(pruned))
    IN  [allowed |-> ANON_SEARCH_LIMIT - Len(pruned) >= 0, remaining |-> remaining]

getAnonSearchAllowance(t) ==
    LET pruned == pruneAnonSearchTimestamps(t, readAnonSearchTimestamps)
        remaining == atLeastZero(ANON_SEARCH_LIMIT - Len(pruned))
    IN  [allowed |-> remaining > 0, remaining |-> remaining]

\* The list recordAnonSearch writes.
nextAnonSearches(t) == Append(pruneAnonSearchTimestamps(t, readAnonSearchTimestamps), t)

\* handleCheckRequirements up to its await (lines 343-368); selected tells
\* whether both countries are chosen.
HandleCheckRequirements(selected) ==
    /\ attempts < MaxAttempts
    /\ attempts' = attempts + 1
    /\ IF ~selected
       THEN UNCHANGED <<anonStored, anonSearchesLeft, landingError, landingLoading,
                        landingData, lookupsInFlight, anonLookups>>
       ELSE IF ~isAuthenticated /\ ~getAnonSearchAllowance(anonNow).allowed
       THEN /\ anonSearchesLeft' = <<getAnonSearchAllowance(anonNow).remaining>>
            /\ landingError' = ANON_LIMIT_ERROR
            /\ landingData' = <<>>
            /\ UNCHANGED <<anonStored, landingLoading, lookupsInFlight, anonLookups>>
       ELSE /\ landingLoading' = TRUE
            /\ landingError' = ""
            /\ landingData' = <<>>
            /\ lookupsInFlight' = lookupsInFlight + 1
            /\ IF ~isAuthenticated
               THEN /\ anonStored' = writeAnonSearchTimestamps(nextAnonSearches(anonNow))
                    /\ anonSearchesLeft' =
                           <<atLeastZero(ANON_SEARCH_LIMIT - Len(nextAnonSearches(anonNow)))>>
                    /\ anonLookups' = Append(anonLookups, anonNow)
               ELSE UNCHANGED <<anonStored, anonSearchesLeft, anonLookups>>
    /\ UNCHANGED <<storageDisabled, anonNow, isAuthenticated,
                   schengenVars, cacheVars, stayVars, countryVars, subVars, tripsVars, routeVars>>

\* The awaited checkVisaRequirements returns or throws (lines 369-375).
LookupReturns(ok) ==
    /\ lookupsInFlight > 0
    /\ lookupsInFlight' = lookupsInFlight - 1
    /\ IF ok
       THEN landingData' = <<"data">> /\ UNCHANGED landingError
       ELSE landingError' = "Failed to check visa requirements" /\ UNCHANGED landingData
    /\ landingLoading' = FALSE
    /\ UNCHANGED <<anonStored, storageDisabled, anonNow, isAuthenticated, anonSearchesLeft,
                   attempts, anonLookups, schengenVars, cacheVars, stayVars, countryVars, subVars, tripsVars, routeVars>>

\* The visitor signs in or out, and the effect of lines 335-341 runs.
SetAuthenticated(b) ==
    /\ isAuthenticated # b
    /\ isAuthenticated' = b
    /\ anonSearchesLeft' = IF b THEN <<>> ELSE <<getAnonSearchAllowance(anonNow).remaining>>
    /\ UNCHANGED <<anonStored, storageDisabled, anonNow, landingError, landingLoading,
                   landingData, lookupsInFlight, attempts, anonLookups,
                   schengenVars, cacheVars, stayVars, countryVars, subVars, tripsVars, routeVars>>

\* Time passes.
AnonTick(t) ==
    /\ t > anonNow
    /\ anonNow' = t
    /\ UNCHANGED <<anonStored, storageDisabled, isAuthenticated, anonSearchesLeft,
                   landingError, landingLoading, landingData, lookupsInFlight, attempts,
                   anonLookups, schengenVars, cacheVars, stayVars, countryVars, subVars, tripsVars, routeVars>>

AnonInit ==
    /\ anonStored = <<>>
    /\ storageDisabled \in BOOLEAN
    /\ anonNow = 0
    /\ isAuthenticated = FALSE
    /\ anonSearchesLeft = <<ANON_SEARCH_LIMIT>>
    /\ landingError = ""
    /\ landingLoading = FALSE
    /\ landingData = <<>>
    /\ lookupsInFlight = 0
    /\ attempts = 0
    /\ anonLookups = <<>>
    /\ SchengenIdle
    /\ CacheIdle
    /\ StayIdle
    /\ CountryIdle
    /\ SubIdle
    /\ TripsIdle
    /\ RouteIdle

AnonNext ==
    \/ \E selected \in BOOLEAN : HandleCheckRequirements(selected)
    \/ \E ok \in BOOLEAN : LookupReturns(ok)
    \/ \E b \in BOOLEAN : SetAuthenticated(b)
    \/ \E t \in AnonTimes : AnonTick(t)

AnonSpec == AnonInit /\ [][AnonNext]_vars

(***************************************************************************)
(* The guard of the paid routes: RequirePaid over useSubscriptionStatus.   *)
(* The auth context is the environment: it may change loading and user at  *)
(* any time.  A render shows the state of the moment; the effect of the    *)
(* hook runs as a later step.                                              *)
(***************************************************************************)
\* Queries issued in a behaviour.
MaxQueries == 2

\* The clock of the guard stops here.
MaxSubTime == 2

\* A period end between the instants of the clock.
PeriodEnd == 1

PrefRows ==
    { NoRow,
      [has_free_access |-> TRUE, subscription_status |-> "null", current_period_end |-> NoEnd],
      [has_free_access |-> FALSE, subscription_status |-> "active", current_period_end |-> <<PeriodEnd>>],
      [has_free_access |-> FALSE, subscription_status |-> "trialing", current_period_end |-> <<PeriodEnd>>],
      [has_free_access |-> FALSE, subscription_status |-> "canceled", current_period_end |-> <<PeriodEnd>>],
      [has_free_access |-> FALSE, subscription_status |-> "active", current_period_end |-> NoEnd] }

\* useAuth().isAuthenticated
subAuthenticated == authUser # NoUser

\* Lines 48-60: the status computed from a row at instant t.
statusOf(pref, t) ==
    [hasFreeAccess |-> pref.has_free_access,
     subscriptionStatus |-> pref.subscription_status,
     currentPeriodEnd |-> pref.current_period_end,
     isPaid |-> \/ pref.has_free_access
                \/ /\ pref.subscription_status # "null"
                   /\ pref.subscription_status \in {"active", "trialing"}
                   /\ pref.current_period_end # NoEnd
                   /\ pref.current_period_end[1] > t]

\* What RequirePaid returns.
RequirePaidView ==
    IF ~mounted THEN "none"
    ELSE IF authLoading \/ subLoading THEN "loading"
    ELSE IF ~subAuthenticated THEN "login"
    ELSE IF ~subData.isPaid THEN "upgrade"
    ELSE "children"

\* The cleanup of the effect: isCancelled = true in the closure of the run
\* it belongs to.
cancelAll(qs) == [i \in 1..Len(qs) |-> [qs[i] EXCEPT !.isCancelled = TRUE]]

removeAt(qs, i) == [j \in 1..(Len(qs) - 1) |-> IF j < i THEN qs[j] ELSE qs[j + 1]]

\* A guarded route is opened: RequirePaid mounts with the initial state of
\* the hook.
Mount ==
    /\ ~mounted
    /\ mounted' = TRUE
    /\ subLoading' = TRUE
    /\ subData' = Unpaid
    /\ reported' = NoQuery
    /\ effectPending' = TRUE
    /\ UNCHANGED <<authLoading, authUser, queries, issued, subNow, prefs,
                   schengenVars, cacheVars, stayVars, countryVars, anonVars, tripsVars, routeVars>>

\* The auth context changes; a mounted guard renders again, and its effect
\* is due because a dependency changed.
AuthChange(l, u) ==
    /\ <<l, u>> # <<authLoading, authUser>>
    /\ authLoading' = l
    /\ authUser' = u
    /\ effectPending' = mounted
    /\ UNCHANGED <<subLoading, subData, queries, issued, reported, mounted, subNow, prefs,
                   schengenVars, cacheVars, stayVars, countryVars, anonVars, tripsVars, routeVars>>

\* The effect of lines 22-68: the cleanup of the previous run, then the body
\* up to the await.
RunEffect ==
    /\ mounted
    /\ effectPending
    /\ effectPending' = FALSE
    /\ IF authLoading
       THEN /\ queries' = cancelAll(queries)
            /\ UNCHANGED <<subLoading, subData, issued, reported>>
       ELSE IF ~subAuthenticated
       THEN /\ queries' = cancelAll(queries)
            /\ subData' = Unpaid
            /\ subLoading' = FALSE
            /\ reported' = NoQuery
            /\ UNCHANGED issued
       ELSE /\ issued < MaxQueries
            /\ issued' = issued + 1
            /\ queries' = Append(cancelAll(queries),
                                 [qid |-> issued + 1, user |-> authUser, isCancelled |-> FALSE])
            /\ subLoading' = TRUE
            /\ UNCHANGED <<subData, reported>>
    /\ UNCHANGED <<authLoading, authUser, mounted, subNow, prefs,
                   schengenVars, cacheVars, stayVars, countryVars, anonVars, tripsVars, routeVars>>

\* Variant: the response of a cancelled query is used too.
QueryReturns_IgnoreCancel(i, error) ==
    /\ i \in 1..Len(queries)
    /\ queries' = removeAt(queries, i)
    /\ subData' = IF error THEN Unpaid ELSE statusOf(prefs[queries[i].user], subNow)
    /\ subLoading' = FALSE
    /\ reported' = [qid |-> queries[i].qid, user |-> queries[i].user]
    /\ UNCHANGED <<authLoading, authUser, effectPending, issued, mounted, subNow, prefs,
                   schengenVars, cacheVars, stayVars, countryVars, anonVars, tripsVars, routeVars>>

\* The awaited query i returns (lines 39-61), with an error or with the row.
QueryReturns(i, error) ==
    /\ i \in 1..Len(queries)
    /\ queries' = removeAt(queries, i)
    /\ IF queries[i].isCancelled
       THEN UNCHANGED <<subLoading, subData, reported>>
       ELSE /\ subData' = IF error THEN Unpaid ELSE statusOf(prefs[queries[i].user], subNow)
            /\ subLoading' = FALSE
            /\ reported' = [qid |-> queries[i].qid, user |-> queries[i].user]
    /\ UNCHANGED <<authLoading, authUser, effectPending, issued, mounted, subNow, prefs,
                   schengenVars, cacheVars, stayVars, countryVars, anonVars, tripsVars, routeVars>>

\* The Navigate element of lines 22 and 26 leaves the route: the guard
\* unmounts and the cleanup of the effect runs.
Redirect ==
    /\ RequirePaidView \in {"login", "upgrade"}
    /\ mounted' = FALSE
    /\ effectPending' = FALSE
    /\ queries' = cancelAll(queries)
    /\ UNCHANGED <<authLoading, authUser, subLoading, subData, issued, reported, subNow,
                   prefs, schengenVars, cacheVars, stayVars, countryVars, anonVars, tripsVars, routeVars>>

\* Time passes.
SubTick ==
    /\ subNow < MaxSubTime
    /\ subNow' = subNow + 1
    /\ UNCHANGED <<authLoading, authUser, subLoading, subData, effectPending, queries,
                   issued, reported, mounted, prefs,
                   schengenVars, cacheVars, stayVars, countryVars, anonVars, tripsVars, routeVars>>

SubInit ==
    /\ authLoading = TRUE
    /\ authUser = NoUser
    /\ subLoading = TRUE
    /\ subData = Unpaid
    /\ effectPending = FALSE
    /\ queries = <<>>
    /\ issued = 0
    /\ reported = NoQuery
    /\ mounted = FALSE
    /\ subNow = 0
    /\ prefs \in [Users -> PrefRows]
    /\ SchengenIdle
    /\ CacheIdle
    /\ StayIdle
    /\ CountryIdle
    /\ AnonIdle
    /\ TripsIdle
    /\ RouteIdle

SubNext ==
    \/ Mount
    \/ \E l \in BOOLEAN, u \in Users \cup {NoUser} : AuthChange(l, u)
    \/ RunEffect
    \/ \E i \in 1..MaxQueries, error \in BOOLEAN : QueryReturns(i, error)
    \/ Redirect
    \/ SubTick

SubSpec == SubInit /\ [][SubNext]_vars

(***************************************************************************)
(* The Trips page: the visa lookups of fetchVisaInfo.  A trip of the list  *)
(* is "plain" (no visaData) or "stored" (visaData present).                *)
(***************************************************************************)
\* Lookups that fail in a behaviour.
MaxFailures == 2

PageTripLists == [TripIds -> {"absent", "plain", "stored"}]

\* The trips for which the effect of lines 238-247 starts a lookup: in the
\* list, not requested (lines 242 and 185), without visaData (line 190).
lookupsToStart(list, requested) ==
    {id \in TripIds : list[id] = "plain" /\ id \notin requested}

\* The trips for which the effect copies the stored visaData (lines 190-194).
storedToShow(list, requested) ==
    {id \in TripIds : list[id] = "stored" /\ id \notin requested}

RECURSIVE callsFor(_)
\* One call at its first await for every trip of the set.
callsFor(ids) ==
    IF ids = {} THEN <<>>
    ELSE LET id == CHOOSE x \in ids : TRUE
         IN  <<[tripId |-> id, stage |-> "lookup"]>> \o callsFor(ids \ {id})

\* The trips list changes: loaded, a trip added, edited or deleted.
ChangeTrips(list) ==
    /\ list # pageTrips
    /\ pageTrips' = list
    /\ tripsEffectDue' = TRUE
    /\ UNCHANGED <<requestedTrips, tripCalls, visaLoading, visaShown, pageUser,
                   lookupFailures, failedTrips,
                   schengenVars, cacheVars, stayVars, countryVars, anonVars, subVars, routeVars>>

\* Variant: the trip id is not marked as requested.
RunTripsEffect_NoMark ==
    /\ tripsEffectDue
    /\ tripsEffectDue' = FALSE
    /\ UNCHANGED requestedTrips
    /\ visaLoading' = [id \in TripIds |->
                          visaLoading[id] \/ id \in lookupsToStart(pageTrips, requestedTrips)]
    /\ visaShown' = visaShown \cup storedToShow(pageTrips, requestedTrips)
    /\ tripCalls' = tripCalls \o callsFor(lookupsToStart(pageTrips, requestedTrips))
    /\ UNCHANGED <<pageTrips, pageUser, lookupFailures, failedTrips,
                   schengenVars, cacheVars, stayVars, countryVars, anonVars, subVars, routeVars>>

\* The effect of lines 238-247: fetchVisaInfo for every trip of the list,
\* each call up to its first await or its return.
RunTripsEffect ==
    /\ tripsEffectDue
    /\ tripsEffectDue' = FALSE
    /\ requestedTrips' = requestedTrips \cup lookupsToStart(pageTrips, requestedTrips)
    /\ visaLoading' = [id \in TripIds |->
                          visaLoading[id] \/ id \in lookupsToStart(pageTrips, requestedTrips)]
    /\ visaShown' = visaShown \cup storedToShow(pageTrips, requestedTrips)
    /\ tripCalls' = tripCalls \o callsFor(lookupsToStart(pageTrips, requestedTrips))
    /\ UNCHANGED <<pageTrips, pageUser, lookupFailures, failedTrips,
                   schengenVars, cacheVars, stayVars, countryVars, anonVars, subVars, routeVars>>

\* checkVisaRequirements returns for call i (lines 203-208).
VisaLookupReturns(i) ==
    /\ i \in 1..Len(tripCalls)
    /\ tripCalls[i].stage = "lookup"
    /\ visaShown' = visaShown \cup {tripCalls[i].tripId}
    /\ IF pageUser
       THEN /\ tripCalls' = [tripCalls EXCEPT ![i].stage = "update"]
            /\ UNCHANGED visaLoading
       ELSE /\ tripCalls' = removeAt(tripCalls, i)
            /\ visaLoading' = [visaLoading EXCEPT ![tripCalls[i].tripId] = FALSE]
    /\ UNCHANGED <<pageTrips, requestedTrips, tripsEffectDue, pageUser, lookupFailures,
                   failedTrips, schengenVars, cacheVars, stayVars, countryVars, anonVars,
                   subVars, routeVars>>

\* checkVisaRequirements throws for call i (lines 228-234).
VisaLookupFails(i) ==
    /\ i \in 1..Len(tripCalls)
    /\ tripCalls[i].stage = "lookup"
    /\ lookupFailures < MaxFailures
    /\ lookupFailures' = lookupFailures + 1
    /\ failedTrips' = failedTrips \cup {tripCalls[i].tripId}
    /\ requestedTrips' = requestedTrips \ {tripCalls[i].tripId}
    /\ tripCalls' = removeAt(tripCalls, i)
    /\ visaLoading' = [visaLoading EXCEPT ![tripCalls[i].tripId] = FALSE]
    /\ UNCHANGED <<pageTrips, visaShown, tripsEffectDue, pageUser,
                   schengenVars, cacheVars, stayVars, countryVars, anonVars, subVars, routeVars>>

\* The update of the trip row returns for call i (lines 209-234).
TripUpdateReturns(i, updateError) ==
    /\ i \in 1..Len(tripCalls)
    /\ tripCalls[i].stage = "update"
    /\ tripCalls' = removeAt(tripCalls, i)
    /\ visaLoading' = [visaLoading EXCEPT ![tripCalls[i].tripId] = FALSE]
    /\ IF updateError
       THEN UNCHANGED <<pageTrips, tripsEffectDue>>
       ELSE /\ pageTrips' = [pageTrips EXCEPT ![tripCalls[i].tripId] =
                                IF @ = "absent" THEN "absent" ELSE "stored"]
            /\ tripsEffectDue' = (tripsEffectDue \/ pageTrips' # pageTrips)
    /\ UNCHANGED <<requestedTrips, visaShown, pageUser, lookupFailures, failedTrips,
                   schengenVars, cacheVars, stayVars, countryVars, anonVars, subVars, routeVars>>

TripsInit ==
    /\ pageTrips = [id \in TripIds |-> "absent"]
    /\ requestedTrips = {}
    /\ tripCalls = <<>>
    /\ visaLoading = [id \in TripIds |-> FALSE]
    /\ visaShown = {}
    /\ tripsEffectDue = FALSE
    /\ pageUser \in BOOLEAN
    /\ lookupFailures = 0
    /\ failedTrips = {}
    /\ SchengenIdle
    /\ CacheIdle
    /\ StayIdle
    /\ CountryIdle
    /\ AnonIdle
    /\ SubIdle
    /\ RouteIdle

TripsNext ==
    \/ \E list \in PageTripLists : ChangeTrips(list)
    \/ RunTripsEffect
    \/ \E i \in 1..Cardinality(TripIds) : VisaLookupReturns(i)
    \/ \E i \in 1..Cardinality(TripIds) : VisaLookupFails(i)
    \/ \E i \in 1..Cardinality(TripIds), updateError \in BOOLEAN : TripUpdateReturns(i, updateError)

TripsSpec == TripsInit /\ [][TripsNext]_vars

(***************************************************************************)
(* The trip cards of the Trips page, over the whole list of trips          *)
(* (Trips.tsx lines 891-960).  stayTrip is the trip whose card is          *)
(* rendered, clock the instant of the render.                              *)
(***************************************************************************)
\* Schengen trips: open since 91 days, since 90 days and from tomorrow, and
\* a completed one of 90 days; and the open and the completed trip outside
\* Schengen.
CardTrips ==
    {[startDate |-> RefDay - 90, endDate |-> NoDate, isSchengen |-> TRUE],
     [startDate |-> RefDay - 89, endDate |-> NoDate, isSchengen |-> TRUE],
     [startDate |-> RefDay + 1, endDate |-> NoDate, isSchengen |-> TRUE],
     [startDate |-> RefDay - 179, endDate |-> <<RefDay - 90>>, isSchengen |-> TRUE],
     [startDate |-> StartDay, endDate |-> NoDate, isSchengen |-> FALSE],
     [startDate |-> StartDay, endDate |-> <<StartDay + 1>>, isSchengen |-> FALSE]}

CardLists == {<<t>> : t \in CardTrips} \cup {<<t, u>> : t \in CardTrips, u \in CardTrips}

CardInstants == {d * HoursPerDay + h : d \in ClockDays \cup {RefDay}, h \in ClockHours}

\* Variant: overstayed from the 90th day on.
schengenCard_AtAllowance(trip, tripList, instant) ==
    LET used == calculateSchengenDaysUsed(tripList, instant)
        today == endOfLocalDay(instant)
        tripStart == startOfLocalDay(parseToLocalDayStart(trip.startDate))
        over == today >= tripStart /\ used >= SchengenAllowance
    IN  [remainingDays |-> <<calculateRemainingSchengenDays(tripList, instant)>>,
         isOverstayed |-> over,
         overstayDays |-> IF over THEN used - SchengenAllowance ELSE 0]

\* Lines 917-934 for a Schengen trip without endDate: tripEnd is the object
\* today, moved to the end of the day, so the trip is active when it has
\* started.
schengenCard(trip, tripList, instant) ==
    LET used == calculateSchengenDaysUsed(tripList, instant)
        today == endOfLocalDay(instant)
        tripStart == startOfLocalDay(parseToLocalDayStart(trip.startDate))
        over == today >= tripStart /\ used > SchengenAllowance
    IN  [remainingDays |-> <<calculateRemainingSchengenDays(tripList, instant)>>,
         isOverstayed |-> over,
         overstayDays |-> IF over THEN used - SchengenAllowance ELSE 0]

\* Lines 906-960 for a trip with visa data.
tripCardOf(trip, tripList, text, instant, offset) ==
    IF trip.endDate # NoDate
    THEN [remainingDays |-> <<>>, isOverstayed |-> FALSE, overstayDays |-> 0]
    ELSE IF trip.isSchengen THEN schengenCard(trip, tripList, instant)
    ELSE tripCard(trip, text, instant, offset)

CardInit ==
    /\ trips \in CardLists
    /\ duration \in Durations
    /\ utcOffset \in UtcOffsets
    /\ clock \in CardInstants
    /\ stayTrip = [startDate |-> StartDay, endDate |-> NoDate, isSchengen |-> FALSE]
    /\ remainingDays = <<>>
    /\ card = <<>>
    /\ referenceDate = RefDay * HoursPerDay
    /\ usedResult = <<>>
    /\ remainingResult = <<>>
    /\ CacheIdle
    /\ AppIdle

\* The card of trip i is rendered.
RenderCard(i) ==
    /\ card = <<>>
    /\ i \in 1..Len(trips)
    /\ stayTrip' = trips[i]
    /\ card' = <<tripCardOf(trips[i], trips, duration, clock, utcOffset)>>
    /\ UNCHANGED <<trips, duration, utcOffset, clock, remainingDays, referenceDate,
                   usedResult, remainingResult, cacheVars, appVars>>

CardNext == \E i \in 1..2 : RenderCard(i)

CardSpec == CardInit /\ [][CardNext]_vars

(***************************************************************************)
(* scripts/serve-passport-routes.ts: the on-demand route server.  Every    *)
(* await of handlePassportRoute is a step of its own; time is in days.     *)
(***************************************************************************)
\* The clock of the route server stops here.
MaxRouteTime == 31

RouteTimes == {t \in {0, 1, TtlDays, TtlDays + 1} : t <= MaxRouteTime}

\* Visa data: complete, without the colour of the primary rule, without the
\* name of the passport.  An absent field is <<>>.
GoodData == [passport |-> <<"Oman">>, destination |-> <<"Peru">>, color |-> <<"green">>]

NoColorData == [passport |-> <<"Oman">>, destination |-> <<"Peru">>, color |-> <<>>]

NoPassportData == [passport |-> <<>>, destination |-> <<"Peru">>, color |-> <<"green">>]

\* Parsed bodies: the data under the key data, or bare.
RouteBodies == {[data |-> GoodData], GoodData, [data |-> NoColorData], NoPassportData}

\* What the awaited fetch and response.json() can give.
FetchOutcomes ==
    {<<"rejected">>, <<"notOk">>, <<"unparseable">>} \cup {<<"ok", b>> : b \in RouteBodies}

isRenderableVisaData(v) ==
    /\ v.passport # <<>>
    /\ v.destination # <<>>
    /\ v.color # <<>>

\* json?.data || json
dataOf(json) == IF "data" \in DOMAIN json THEN json.data ELSE json

\* The row getValidCache returns: <<>> for null.
getValidCache(pair, error) ==
    IF error \/ routeCache[pair] = <<>> THEN <<>>
    ELSE IF routeCache[pair][1].expires_at > routeNow THEN routeCache[pair] ELSE <<>>

\* The page generateHTMLFromVisaData renders.
pageOf(visaData, cachedAt) == <<[visaData |-> visaData, lastUpdated |-> cachedAt]>>

finish(req, status, source, page) ==
    [req EXCEPT !.pc = "done", !.status = status, !.source = source, !.page = page]

\* Variant: the pre-rendered file is not looked for.
Arrive_NoFileCheck(r, pair) ==
    /\ routeReq[r].pc = "idle"
    /\ routeReq' = [routeReq EXCEPT ![r] =
                       [@ EXCEPT !.pc = "cache", !.pair = pair,
                                 !.sawFile = (routeFiles[pair] # <<>>)]]
    /\ UNCHANGED <<routeFiles, routeCache, routeNow, routeApiKey,
                   schengenVars, cacheVars, stayVars, countryVars, anonVars, subVars,
                   tripsVars>>

\* A request for the pair arrives (lines 229-239, up to the first await).
Arrive(r, pair) ==
    /\ routeReq[r].pc = "idle"
    /\ routeReq' = [routeReq EXCEPT ![r] =
                       IF routeFiles[pair] # <<>>
                       THEN finish([@ EXCEPT !.pair = pair, !.sawFile = TRUE],
                                   200, "file", routeFiles[pair])
                       ELSE [@ EXCEPT !.pc = "cache", !.pair = pair]]
    /\ UNCHANGED <<routeFiles, routeCache, routeNow, routeApiKey,
                   schengenVars, cacheVars, stayVars, countryVars, anonVars, subVars,
                   tripsVars>>

\* getValidCache returns (lines 239-253 and 198).
CacheReturns(r, error) ==
    LET req == [routeReq[r] EXCEPT !.readCache = TRUE]
        cached == getValidCache(req.pair, error)
        hit == cached # <<>> /\ cached[1].response_data # <<>>
        visaData == dataOf(cached[1].response_data[1])
    IN  /\ routeReq[r].pc = "cache"
        /\ IF hit /\ isRenderableVisaData(visaData)
           THEN /\ routeFiles' = [routeFiles EXCEPT ![req.pair] =
                                     pageOf(visaData, cached[1].cached_at)]
                /\ routeReq' = [routeReq EXCEPT ![r] =
                                   finish(req, 200, "cache",
                                          pageOf(visaData, cached[1].cached_at))]
           ELSE /\ UNCHANGED routeFiles
                /\ routeReq' = [routeReq EXCEPT ![r] =
                                   IF hit \/ ~routeApiKey
                                   THEN finish(req, 404, "none", <<>>)
                                   ELSE [req EXCEPT !.pc = "fetch"]]
        /\ UNCHANGED <<routeCache, routeNow, routeApiKey,
                       schengenVars, cacheVars, stayVars, countryVars, anonVars, subVars,
                       tripsVars>>

\* fetch and response.json() return (lines 200-216).  An exception leaves
\* handlePassportRoute and the server answers 500 (lines 307-309).
FetchReturns(r, outcome) ==
    LET req == [routeReq[r] EXCEPT !.calledExternal = TRUE]
    IN  /\ routeReq[r].pc = "fetch"
        /\ routeReq' = [routeReq EXCEPT ![r] =
              IF outcome[1] \in {"rejected", "unparseable"}
              THEN finish(req, 500, "none", <<>>)
              ELSE IF outcome[1] = "notOk"
              THEN finish(req, 404, "none", <<>>)
              ELSE IF ~isRenderableVisaData(dataOf(outcome[2]))
              THEN finish(req, 404, "none", <<>>)
              ELSE [req EXCEPT !.pc = "upsert",
                               !.held = <<[json |-> outcome[2], cachedAt |-> routeNow]>>]]
        /\ UNCHANGED <<routeFiles, routeCache, routeNow, routeApiKey,
                       schengenVars, cacheVars, stayVars, countryVars, anonVars, subVars,
                       tripsVars>>

\* The upsert returns, stored or not (lines 217-226 and 254-259).
UpsertReturns(r, stored) ==
    LET req == routeReq[r]
        page == pageOf(dataOf(req.held[1].json), req.held[1].cachedAt)
    IN  /\ req.pc = "upsert"
        /\ routeCache' =
              IF stored
              THEN [routeCache EXCEPT ![req.pair] =
                      <<[response_data |-> <<req.held[1].json>>,
                         cached_at |-> req.held[1].cachedAt,
                         expires_at |-> expiresAtFor(routeNow)]>>]
              ELSE routeCache
        /\ routeFiles' = [routeFiles EXCEPT ![req.pair] = page]
        /\ routeReq' = [routeReq EXCEPT ![r] = finish(req, 200, "fetch", page)]
        /\ UNCHANGED <<routeNow, routeApiKey,
                       schengenVars, cacheVars, stayVars, countryVars, anonVars, subVars,
                       tripsVars>>

\* Time passes.
RouteTick(t) ==
    /\ t > routeNow
    /\ routeNow' = t
    /\ UNCHANGED <<routeFiles, routeCache, routeApiKey, routeReq,
                   schengenVars, cacheVars, stayVars, countryVars, anonVars, subVars,
                   tripsVars>>

\* Rows the client gateway may have left in the table: none, one whose data
\* lacks the colour, one without response_data.
StoredRows ==
    {<<>>,
     <<[response_data |-> <<[data |-> NoColorData]>>, cached_at |-> 0, expires_at |-> 1]>>,
     <<[response_data |-> <<>>, cached_at |-> 0, expires_at |-> 1]>>}

RouteInit ==
    /\ routeFiles = [k \in RoutePairs |-> <<>>]
    /\ routeCache \in [RoutePairs -> StoredRows]
    /\ routeNow = 0
    /\ routeApiKey \in BOOLEAN
    /\ routeReq = [r \in Requests |-> NoRequest]
    /\ SchengenIdle
    /\ CacheIdle
    /\ StayIdle
    /\ CountryIdle
    /\ AnonIdle
    /\ SubIdle
    /\ TripsIdle

RouteNext ==
    \/ \E r \in Requests, pair \in RoutePairs : Arrive(r, pair)
    \/ \E r \in Requests, error \in BOOLEAN : CacheReturns(r, error)
    \/ \E r \in Requests, outcome \in FetchOutcomes : FetchReturns(r, outcome)
    \/ \E r \in Requests, stored \in BOOLEAN : UpsertReturns(r, stored)
    \/ \E t \in RouteTimes : RouteTick(t)

RouteSpec == RouteInit /\ [][RouteNext]_vars

(***************************************************************************)
(* Properties of the accountant                                            *)
(***************************************************************************)
\* The calendar day of the reference date and the window of the rule, as the
\* specification states them: the WindowDays calendar days ending on it.
refDayOf(refDate) == refDate \div HoursPerDay

Window(refDate) == (refDayOf(refDate) - (WindowDays - 1))..refDayOf(refDate)

\* The last calendar day trip t is accounted for when the reference day is r:
\* its endDate, or r when it has none.
lastDayOf(t, r) == IF t.endDate = NoDate THEN r ELSE t.endDate[1]

Covers(t, d, r) == t.startDate <= d /\ d <= lastDayOf(t, r)

\* The calendar dates of the window covered by at least one Schengen trip.
UnionDays(tripList, refDate) ==
    LET r == refDayOf(refDate)
        S == SelectSeq(tripList, LAMBDA t : t.isSchengen)
    IN  {d \in Window(refDate) : \E i \in 1..Len(S) : Covers(S[i], d, r)}

Front(tripList) == SubSeq(tripList, 1, Len(tripList) - 1)

LastTripAlreadyCovered ==
    /\ Len(trips) >= 2
    /\ trips[Len(trips)].isSchengen
    /\ LET r == refDayOf(referenceDate)
           before == UnionDays(Front(trips), referenceDate)
       IN  \A d \in Window(referenceDate) : Covers(trips[Len(trips)], d, r) => d \in before

\* C1: calculateSchengenDaysUsed returns the number of distinct calendar dates
\* of the window covered by the union of the Schengen trips (a date covered by
\* several trips counts once), and a trip whose days are all covered by the
\* trips before it does not change the result.
C1_DistinctUnionDays ==
    usedResult # <<>> =>
        /\ usedResult[1] = Cardinality(UnionDays(trips, referenceDate))
        /\ LastTripAlreadyCovered =>
               usedResult[1] = calculateSchengenDaysUsed(Front(trips), referenceDate)

\* Two Schengen trips that share days of the window, the second adding none.
C1_Witness ==
    /\ usedResult # <<>>
    /\ LastTripAlreadyCovered
    /\ \E d \in Window(referenceDate) :
          /\ Covers(trips[1], d, refDayOf(referenceDate))
          /\ Covers(trips[2], d, refDayOf(referenceDate))
    /\ usedResult[1] = 91

\* C2: for every trip list and reference date, 0 <= days used <= 180 and
\* 0 <= days remaining <= 90.
C2_ResultBounds ==
    /\ usedResult # <<>> => (0 <= usedResult[1] /\ usedResult[1] <= WindowDays)
    /\ remainingResult # <<>> =>
           (0 <= remainingResult[1] /\ remainingResult[1] <= SchengenAllowance)

\* A list holding a trip with endDate before startDate and one that starts
\* before the window and ends after the reference date: 180 used, 0 remaining.
C2_Witness ==
    /\ usedResult = <<WindowDays>>
    /\ remainingResult = <<0>>
    /\ \E i \in 1..Len(trips) :
          trips[i].isSchengen /\ trips[i].endDate # NoDate
          /\ trips[i].endDate[1] < trips[i].startDate
    /\ \E i \in 1..Len(trips) :
          trips[i].isSchengen /\ trips[i].endDate # NoDate
          /\ trips[i].startDate < refDayOf(referenceDate) - (WindowDays - 1)
          /\ trips[i].endDate[1] > refDayOf(referenceDate)

SchengenOnly == SelectSeq(trips, LAMBDA t : t.isSchengen)

\* C3: the window is the closed interval [referenceDate - 179, referenceDate]:
\* a single Schengen trip counts exactly its days inside that interval (so a
\* day on referenceDate - 179 or on referenceDate counts, a day on
\* referenceDate - 180 or after referenceDate does not), trips wholly outside
\* it count nothing, and a trip covering the whole window yields 180.
C3_ClosedWindow ==
    usedResult # <<>> =>
        LET r == refDayOf(referenceDate)
            S == SchengenOnly
        IN  /\ Len(S) = 1 =>
                  usedResult[1] =
                      Cardinality({d \in (r - 179)..r :
                                      S[1].startDate <= d /\ d <= lastDayOf(S[1], r)})
            /\ (\A i \in 1..Len(S) :
                    lastDayOf(S[i], r) <= r - 180 \/ S[i].startDate > r)
                   => usedResult[1] = 0
            /\ (\E i \in 1..Len(S) :
                    S[i].startDate <= r - 179 /\ lastDayOf(S[i], r) >= r)
                   => usedResult[1] = 180

\* One Schengen trip from the day before the window to the day after the
\* reference date: exactly 180 days.
C3_Witness ==
    /\ usedResult = <<180>>
    /\ Len(trips) = 1
    /\ trips[1].isSchengen
    /\ trips[1].startDate = refDayOf(referenceDate) - 180
    /\ trips[1].endDate = <<refDayOf(referenceDate) + 1>>

\* C4: days remaining = 90 - days used when days used <= 90, and 0 otherwise;
\* never negative.
C4_RemainingFromUsed ==
    (usedResult # <<>> /\ remainingResult # <<>>) =>
        /\ usedResult[1] <= 90 => remainingResult[1] = 90 - usedResult[1]
        /\ usedResult[1] > 90 => remainingResult[1] = 0
        /\ remainingResult[1] >= 0

\* 91 days used: nothing remains.
C4_Witness == usedResult = <<91>> /\ remainingResult = <<0>>

\* The list with every open-ended trip closed on day d.
ClosedOn(tripList, d) ==
    [i \in 1..Len(tripList) |->
        IF tripList[i].endDate = NoDate
        THEN [tripList[i] EXCEPT !.endDate = <<d>>]
        ELSE tripList[i]]

\* C5: a Schengen trip without endDate is accounted with effective end = the
\* reference date: alone it contributes the days from max(startDate,
\* windowStart) through the reference date, none when it starts after the
\* reference date; in any list it counts as the same trip ending on the
\* reference date, and no differently from one ending the day after.
C5_OpenEndedTrip ==
    usedResult # <<>> =>
        LET r == refDayOf(referenceDate)
            S == SchengenOnly
        IN  /\ (Len(S) = 1 /\ S[1].endDate = NoDate) =>
                  LET from == IF S[1].startDate > r - 179 THEN S[1].startDate ELSE r - 179
                  IN  usedResult[1] = IF S[1].startDate > r THEN 0 ELSE r - from + 1
            /\ usedResult[1] = calculateSchengenDaysUsed(ClosedOn(trips, r), referenceDate)
            /\ usedResult[1] = calculateSchengenDaysUsed(ClosedOn(trips, r + 1), referenceDate)

\* An open-ended Schengen trip that started 90 days before the reference date.
C5_Witness ==
    /\ usedResult = <<91>>
    /\ Len(trips) = 1
    /\ trips[1].isSchengen
    /\ trips[1].endDate = NoDate
    /\ trips[1].startDate = refDayOf(referenceDate) - 90

(***************************************************************************)
(* Properties of the cache gateway                                         *)
(***************************************************************************)
\* The step in which call p leaves the await it is suspended at.
Leaves(p, at) == pc[p] = at /\ pc'[p] # at

Missed(p) == pc[p] = "done" /\ result[p] # <<>> /\ result[p][1] = "ok" /\ extCalls[p] = 1

C6_CheckStep(p) ==
    (Leaves(p, "check") /\ row[p] # <<>>) =>
        LET T == row[p][1].cached_at
        IN  /\ (T <= now /\ now < T + TtlDays) =>
                  /\ pc'[p] = "done"
                  /\ result'[p] = <<"ok", <<row[p][1].response_data>>>>
                  /\ extCalls'[p] = 0
                  /\ store' = store
            /\ now >= T + TtlDays =>
                  /\ pc'[p] = "delete"
                  /\ result'[p] = <<>>

C6_DeleteStep(p) ==
    Leaves(p, "delete") =>
        /\ store'[key[p]] = <<>>
        /\ pc'[p] \in {"fetch", "done"}
        /\ pc'[p] = "done" => result'[p][1] = "error"

\* C6: with expiresAt = cachedAt + 30 days, a check that reads an entry
\* written at T is a hit (returns the stored payload, no external call) at
\* every time T <= T' < T + 30 days, and at every T' >= T + 30 days, the
\* boundary included, it is a miss whose delete empties the key.
C6_TtlHitOrEvict == [][\A p \in Calls : C6_CheckStep(p) /\ C6_DeleteStep(p)]_vars

\* A call about to evict a row it read at the very instant of its expiry.
C6_Witness ==
    \E p \in Calls :
        /\ pc[p] = "delete"
        /\ row[p] # <<>>
        /\ now = row[p][1].cached_at + TtlDays
        /\ store[key[p]] = row[p]

C7_FirstCall ==
    \A p \in Calls :
        (pc[p] = "done" /\ result[p][1] = "ok" /\ row[p] = <<>>) =>
            /\ extCalls[p] = 1
            /\ upserts[p] = 1
            /\ Len(store[key[p]]) = 1
            /\ result[p] = <<"ok", <<store[key[p]][1].response_data>>>>

C7_LaterCheck(p) ==
    (/\ Leaves(p, "check")
     /\ store[key[p]] # <<>>
     /\ now < store[key[p]][1].cached_at + TtlDays) =>
        /\ pc'[p] = "done"
        /\ result'[p] = <<"ok", <<store[key[p]][1].response_data>>>>
        /\ extCalls'[p] = 0
        /\ upserts'[p] = 0

C7_EntryKept(k) ==
    (store[k] # <<>> /\ now' < store[k][1].cached_at + TtlDays) => store'[k] = store[k]

\* C7: with one client at a time, a successful call that found no entry makes
\* exactly one external lookup and one upsert and leaves its payload stored;
\* the entry stays as stored until it expires, and every check made before
\* that makes no external lookup and returns the stored payload.
C7_OneLookupThenHits ==
    /\ []C7_FirstCall
    /\ [][(\A p \in Calls : C7_LaterCheck(p)) /\ (\A k \in Keys : C7_EntryKept(k))]_vars

\* A later check served from the entry an earlier call stored, one instant
\* before it expires.
C7_Witness ==
    \E p \in Calls :
        /\ pc[p] = "done"
        /\ extCalls[p] = 0
        /\ row[p] # <<>>
        /\ result[p] = <<"ok", <<row[p][1].response_data>>>>
        /\ now = row[p][1].cached_at + TtlDays - 1

\* C8: two calls on the same key that both missed have each made one external
\* lookup and one upsert; the store holds exactly one entry for the key, with
\* the payload of the upsert that ran last, and each call returns the payload
\* it fetched itself.
C8_ConcurrentMisses ==
    \A p, q \in Calls :
        (p # q /\ Missed(p) /\ Missed(q) /\ key[p] = key[q]) =>
            /\ upserts[p] = 1
            /\ upserts[q] = 1
            /\ result[p] = <<"ok", <<response[p][2]>>>>
            /\ result[q] = <<"ok", <<response[q][2]>>>>
            /\ Len(store[key[p]]) = 1
            /\ lastWriter[key[p]] # <<>>
            /\ lastWriter[key[p]][1] \in {p, q}
            /\ store[key[p]][1].response_data = response[lastWriter[key[p]][1]][2]

\* Both calls missed and fetched different payloads; the one written last is
\* the one stored.
C8_Witness ==
    /\ Missed("c1")
    /\ Missed("c2")
    /\ key["c1"] = key["c2"]
    /\ response["c1"][2] # response["c2"][2]
    /\ lastWriter[key["c1"]] = <<"c1">>
    /\ row["c1"] = <<>>
    /\ row["c2"] = <<>>

\* C9: the entry removed by a call's delete is an expired one; an unexpired
\* entry is never deleted.
C9_OnlyExpiredDeleted ==
    [][\A p \in Calls :
          Leaves(p, "delete") =>
              (store[key[p]] = <<>> \/ now >= store[key[p]][1].expires_at)]_vars

C10_NoUpsertAfterError ==
    \A p \in Calls :
        (response[p] # <<>> /\ ~(200 <= response[p][1] /\ response[p][1] <= 299)) =>
            /\ pc[p] = "done"
            /\ result[p][1] = "error"
            /\ upserts[p] = 0
            /\ upsertArg[p] = <<>>

C10_ErrorStep(p, status) ==
    (Leaves(p, "fetch") /\ response'[p][1] = status) =>
        /\ pc'[p] = "done"
        /\ store' = store

\* C10: a non-2xx answer of the external lookup ends the call with an error;
\* the call issues no upsert and the step leaves the store as it was.
C10_UpstreamErrorNotCached ==
    /\ []C10_NoUpsertAfterError
    /\ [][\A p \in Calls : \A status \in Statuses :
             ~(200 <= status /\ status <= 299) => C10_ErrorStep(p, status)]_vars

\* A call ended by a 500 answer, with nothing stored under its key.
C10_Witness ==
    \E p \in Calls :
        /\ pc[p] = "done"
        /\ response[p] # <<>>
        /\ response[p][1] = 500
        /\ result[p] = <<"error", <<"API error", 500>>>>
        /\ store[key[p]] = <<>>

Is2xx(status) == 200 <= status /\ status <= 299

\* C11: an invalid payload is never persisted: after a 2xx answer whose body
\* is malformed, empty or lacks the visa data the call has issued no upsert,
\* and no row holds anything but a visa payload.
C11_InvalidNeverPersisted ==
    /\ \A p \in Calls :
          (response[p] # <<>> /\ Is2xx(response[p][1]) /\ response[p][2] \notin Payloads) =>
              upserts[p] = 0
    /\ \A k \in Keys : store[k] # <<>> => store[k][1].response_data \in Payloads

\* C12: a call in which a cache read, a cache write (upsert or delete) or the
\* external call failed ends with an error.
C12_FailuresPropagate ==
    \A p \in Calls : (pc[p] = "done" /\ ioFailed[p] # {}) => result[p][1] = "error"

C13_HitCall ==
    \A p \in Calls :
        (pc[p] = "done" /\ result[p][1] = "ok" /\ extCalls[p] = 0) =>
            /\ row[p] # <<>>
            /\ result[p] = <<"ok", <<row[p][1].response_data>>>>
            /\ upserts[p] = 0
            /\ response[p] = <<>>

C13_HitStep(p) ==
    (Leaves(p, "check") /\ row[p] # <<>> /\ now < row[p][1].expires_at) =>
        /\ pc'[p] = "done"
        /\ result'[p] = <<"ok", <<row[p][1].response_data>>>>
        /\ extCalls'[p] = 0
        /\ upserts'[p] = 0
        /\ store' = store

C13_ReadStep(p) == Leaves(p, "select") => store' = store

\* C13: a hit has no effect beyond the read: the select changes no row, and a
\* call that read a fresh row (now < expiresAt) returns exactly its payload,
\* makes no external call and no upsert, and leaves every row (payload,
\* cachedAt, expiresAt) as it was.
C13_HitHasNoEffect ==
    /\ []C13_HitCall
    /\ [][\A p \in Calls : C13_HitStep(p) /\ C13_ReadStep(p)]_vars

\* A call served from a row written earlier, which is still as it was read.
C13_Witness ==
    \E p \in Calls :
        /\ pc[p] = "done"
        /\ extCalls[p] = 0
        /\ row[p] # <<>>
        /\ result[p] = <<"ok", <<row[p][1].response_data>>>>
        /\ now > row[p][1].cached_at
        /\ store[key[p]] = row[p]
        /\ row[p][1].expires_at = row[p][1].cached_at + TtlDays

C14_StoreStep(p) ==
    Leaves(p, "upsert") =>
        /\ Len(store'[key[p]]) = 1
        /\ store'[key[p]][1].response_data = upsertArg[p][1].response_data
        /\ \A k \in Keys \ {key[p]} : store'[k] = store[k]

C14_ReadBack(p) ==
    (/\ Leaves(p, "check")
     /\ store[key[p]] # <<>>
     /\ now = store[key[p]][1].cached_at) =>
        /\ pc'[p] = "done"
        /\ result'[p] = <<"ok", <<store[key[p]][1].response_data>>>>
        /\ store' = store

C15_MissingCredential ==
    ~apiKey =>
        /\ \A p \in Calls :
              /\ extCalls[p] = 0
              /\ upserts[p] = 0
              /\ response[p] = <<>>
              /\ pc[p] \notin {"fetch", "upsert"}
              /\ pc[p] = "done" =>
                     result[p] = <<"error", <<"RapidAPI key is not configured">>>>
        /\ \A k \in Keys : store[k] = <<>>

\* A call that missed and ended with the configuration error.
C15_Witness ==
    /\ ~apiKey
    /\ \E p \in Calls :
          /\ pc[p] = "done"
          /\ row[p] = <<>>
          /\ result[p] = <<"error", <<"RapidAPI key is not configured">>>>

Failed(p) == response[p] # <<>> /\ ~Is2xx(response[p][1])

\* C16: a non-2xx answer never yields a normal result; 401, 404 and 422 give
\* errors of their own, every other status an error that carries the status,
\* so answers with different statuses give different errors.
C16_DistinctErrors ==
    \A p \in Calls :
        Failed(p) =>
            /\ pc[p] = "done"
            /\ result[p][1] = "error"
            /\ response[p][1] \in {401, 404, 422} => Len(result[p][2]) = 1
            /\ response[p][1] \notin {401, 404, 422} =>
                   (Len(result[p][2]) = 2 /\ result[p][2][2] = response[p][1])
            /\ \A q \in Calls :
                   (Failed(q) /\ response[q][1] # response[p][1]) => result[q] # result[p]

\* Two calls ended by a 404 and by a 422 answer.
C16_Witness ==
    /\ Failed("c1")
    /\ Failed("c2")
    /\ response["c1"][1] = 404
    /\ response["c2"][1] = 422
    /\ result["c1"] # result["c2"]

\* C17: the steps of one call follow one another: nothing is fetched or
\* written before the cache read has completed, the external call is issued
\* only after a miss and at most once, the upsert only after a parseable 2xx
\* answer and at most once, and a failed external call ends the call with an
\* error.
C17_StepsInSequence ==
    \A p \in Calls :
        /\ extCalls[p] <= 1
        /\ upserts[p] <= 1
        /\ pc[p] \in {"idle", "select", "check", "delete"} =>
               (extCalls[p] = 0 /\ upserts[p] = 0 /\ response[p] = <<>>)
        /\ extCalls[p] = 1 => (row[p] = <<>> \/ now >= row[p][1].expires_at)
        /\ pc[p] = "fetch" => (extCalls[p] = 1 /\ upserts[p] = 0 /\ response[p] = <<>>)
        /\ upserts[p] = 1 =>
               /\ extCalls[p] = 1
               /\ response[p] # <<>>
               /\ Is2xx(response[p][1])
               /\ response[p][2] \notin {Unparseable, EmptyText}
        /\ (Failed(p) \/ "fetch" \in ioFailed[p]) =>
               /\ pc[p] = "done"
               /\ result[p][1] = "error"
               /\ extCalls[p] = 1
               /\ upserts[p] = 0

\* A call that read an expired row, issued the external call once and was
\* ended by its rejection.
C17_Witness ==
    \E p \in Calls :
        /\ pc[p] = "done"
        /\ row[p] # <<>>
        /\ ioFailed[p] = {"fetch"}
        /\ extCalls[p] = 1
        /\ upserts[p] = 0
        /\ result[p][1] = "error"

\* C18: for a parseable duration of totalDays, with visaEnd the day
\* startDate + totalDays, calculateRemainingDays returns 0 on a day after
\* visaEnd, totalDays on a day before startDate, and otherwise the number of
\* days from the day to visaEnd (totalDays on the day startDate).
C18_RemainingDays ==
    (remainingDays # <<>> /\ durationMatch(duration) # <<>>) =>
        LET totalDays == totalDaysOf(duration)
            ref == clock \div HoursPerDay
            visaEnd == stayTrip.startDate + totalDays
        IN  remainingDays[1] = <<IF ref > visaEnd THEN 0
                                 ELSE IF ref < stayTrip.startDate THEN totalDays
                                 ELSE visaEnd - ref>>

\* C19: the card of a trip that is not Schengen flags an overstay exactly when
\* today is after visaEnd (startDate + totalDays) and within [startDate,
\* endDate-or-today], and reports the number of days today lies past visaEnd.
C19_Overstay ==
    (card # <<>> /\ durationMatch(duration) # <<>>) =>
        LET today == clock \div HoursPerDay
            visaEnd == stayTrip.startDate + totalDaysOf(duration)
            end == IF stayTrip.endDate = NoDate THEN today ELSE stayTrip.endDate[1]
            active == stayTrip.startDate <= today /\ today <= end
        IN  /\ card[1].isOverstayed = (today > visaEnd /\ active)
            /\ card[1].isOverstayed => card[1].overstayDays = today - visaEnd

Reversed(t) == t.isSchengen /\ t.endDate # NoDate /\ t.endDate[1] < t.startDate

\* C20: a Schengen trip whose endDate is before its startDate contributes no
\* day, wherever its dates lie: the call returns a number, the number it
\* returns for the list without such trips.
C20_ReversedTripIgnored ==
    (usedResult # <<>> /\ \E i \in 1..Len(trips) : Reversed(trips[i])) =>
        /\ usedResult[1] \in Nat
        /\ usedResult[1] =
               calculateSchengenDaysUsed(SelectSeq(trips, LAMBDA t : ~Reversed(t)),
                                         referenceDate)

\* A reversed trip with both dates inside the window, next to a trip that
\* contributes days.
C20_Witness ==
    /\ usedResult # <<>>
    /\ usedResult[1] > 0
    /\ \E i \in 1..Len(trips) :
          /\ Reversed(trips[i])
          /\ trips[i].startDate \in Window(referenceDate)
          /\ trips[i].endDate[1] \in Window(referenceDate)

HasOtherTrip == \E i \in 1..Len(trips) : ~trips[i].isSchengen

SchengenSubList == SelectSeq(trips, LAMBDA t : t.isSchengen)

\* C21: trips whose isSchengen flag is false are ignored: days used and days
\* remaining of a list are those of its sub-list of Schengen trips.
C21_OtherTripsIgnored ==
    HasOtherTrip =>
        /\ usedResult # <<>> =>
               usedResult[1] = calculateSchengenDaysUsed(SchengenSubList, referenceDate)
        /\ remainingResult # <<>> =>
               remainingResult[1] =
                   calculateRemainingSchengenDays(SchengenSubList, referenceDate)

\* A trip that is not Schengen covers 91 days of the window the Schengen trip
\* of the list does not cover, and they are not counted.
C21_Witness ==
    /\ usedResult = <<1>>
    /\ remainingResult = <<SchengenAllowance - 1>>
    /\ Len(trips) = 2
    /\ \E i \in 1..2 :
          /\ ~trips[i].isSchengen
          /\ trips[i].startDate = RefDay - 90
          /\ trips[i].endDate = <<RefDay>>

InTable(n) == \E e \in 1..Len(countryNameToCode) : countryNameToCode[e].name = n

CodeOf(n) == countryNameToCode[CHOOSE e \in 1..Len(countryNameToCode) :
                                   countryNameToCode[e].name = n].code

\* t is what follows the last comma of n, without the spaces around it.
IsTail(n, t) ==
    \E c \in 1..Len(n) :
        /\ n[c] = ","
        /\ \A j \in (c + 1)..Len(n) : n[j] # ","
        /\ \E a \in (c + 1)..(Len(n) + 1), b \in c..Len(n) :
              /\ \A j \in (c + 1)..(a - 1) : n[j] = " "
              /\ \A j \in (b + 1)..Len(n) : n[j] = " "
              /\ t = SubSeq(n, a, b)
              /\ t = <<>> \/ (t[1] # " " /\ t[Len(t)] # " ")

\* Entry e contains n or is contained in n, case ignored.
Partial(n, e) ==
    LET a == toLowerCase(countryNameToCode[e].name)
        b == toLowerCase(n)
    IN  includes(a, b) \/ includes(b, a)

Resolves(n, code) ==
    IF InTable(n) THEN code = CodeOf(n)
    ELSE IF \E e \in 1..Len(countryNameToCode) : IsTail(n, countryNameToCode[e].name)
    THEN \E e \in 1..Len(countryNameToCode) :
             IsTail(n, countryNameToCode[e].name) /\ code = countryNameToCode[e].code
    ELSE IF \E e \in 1..Len(countryNameToCode) : Partial(n, e)
    THEN \E e \in 1..Len(countryNameToCode) :
             /\ Partial(n, e)
             /\ \A f \in 1..(e - 1) : ~Partial(n, f)
             /\ code = countryNameToCode[e].code
    ELSE /\ Len(code) = (IF Len(n) < 2 THEN Len(n) ELSE 2)
         /\ \A i \in 1..Len(code) : code[i] = toUpperChar(n[i])

\* C22: getCountryCode returns, for every name, the first that applies of:
\* the code of the exact table entry; the code of the entry named by the
\* trimmed part after the last comma; the code of the first entry whose name
\* contains or is contained in the name, case ignored; the first two
\* characters in upper case.
C22_ResolutionOrder ==
    /\ passportCode # <<>> => Resolves(passportCountry, passportCode[1])
    /\ destinationCode # <<>> => Resolves(destinationCountry, destinationCode[1])

\* "Niger,Oman" resolved by the part after the comma although the first
\* entry is contained in it, and "Peru" by its first two characters.
C22_Witness ==
    /\ passportCountry = <<"N", "i", "g", "e", "r", ",", "O", "m", "a", "n">>
    /\ passportCode = <<<<"O", "M">>>>
    /\ destinationCountry = <<"P", "e", "r", "u">>
    /\ destinationCode = <<<<"P", "E">>>>

\* text[i..j] is an integer, followed by spaces or nothing, followed at k by
\* the word w in either case.
PatternAt(text, i, j, k, w) ==
    /\ \A n \in i..j : isDigit(text[n])
    /\ \A n \in (j + 1)..(k - 1) : text[n] = " "
    /\ k + Len(w) - 1 <= Len(text)
    /\ toLowerCase(SubSeq(text, k, k + Len(w) - 1)) = w

DayWord == <<"d", "a", "y">>

MonthWord == <<"m", "o", "n", "t", "h">>

HasPattern(text) ==
    \E i \in 1..Len(text), j \in 1..Len(text), k \in 1..Len(text) :
        i <= j /\ j < k /\ \E w \in {DayWord, MonthWord} : PatternAt(text, i, j, k, w)

\* The integer read at the first place of text where the pattern is found,
\* taken 30 times when the unit there is a month.
PatternDays(text) ==
    LET i == CHOOSE i \in 1..Len(text) :
                 /\ \E j \in i..Len(text), k \in (i + 1)..Len(text) :
                        j < k /\ \E w \in {DayWord, MonthWord} : PatternAt(text, i, j, k, w)
                 /\ \A h \in 1..(i - 1) :
                        ~\E j \in h..Len(text), k \in (h + 1)..Len(text) :
                            j < k /\ \E w \in {DayWord, MonthWord} : PatternAt(text, h, j, k, w)
        j == CHOOSE j \in i..Len(text) :
                 \E k \in (j + 1)..Len(text) :
                     \E w \in {DayWord, MonthWord} : PatternAt(text, i, j, k, w)
        k == CHOOSE k \in (j + 1)..Len(text) :
                 \E w \in {DayWord, MonthWord} : PatternAt(text, i, j, k, w)
    IN  IF PatternAt(text, i, j, k, MonthWord)
        THEN parseInt(SubSeq(text, i, j)) * 30
        ELSE parseInt(SubSeq(text, i, j))

\* C23: calculateRemainingDays returns null exactly when the duration is
\* absent or holds no integer followed by day(s) or month(s) in either case;
\* otherwise totalDays (what it returns before the start) is the integer for
\* days and 30 times the integer for months.
C23_DurationParsing ==
    remainingDays # <<>> =>
        /\ remainingDays[1] = <<>> <=> (duration = <<>> \/ ~HasPattern(duration))
        /\ (HasPattern(duration) /\ clock < parseDateUtc(stayTrip.startDate, utcOffset)) =>
               remainingDays[1] = <<PatternDays(duration)>>

\* "3 Months" gives 90 days before the start.
C23_Witness ==
    /\ duration = <<"3", " ", "M", "o", "n", "t", "h", "s">>
    /\ clock < parseDateUtc(stayTrip.startDate, utcOffset)
    /\ remainingDays = <<<<90>>>>

EndedInError(p) == pc[p] = "done" /\ result[p] # <<>> /\ result[p][1] = "error"

C24_AfterError ==
    \A p \in Calls :
        EndedInError(p) =>
            /\ upserts[p] = 0
            /\ store[key[p]] = <<>>
            /\ row[p] # <<>> => now >= row[p][1].expires_at

C24_StoreStep(k) ==
    store'[k] # store[k] =>
        \E p \in Calls :
            /\ key[p] = k
            /\ \/ /\ pc[p] = "delete"
                  /\ row[p] # <<>>
                  /\ now >= row[p][1].expires_at
                  /\ store'[k] = <<>>
               \/ /\ pc[p] = "upsert"
                  /\ result'[p][1] = "ok"

LookupsInWindow(i) ==
    {j \in 1..Len(anonLookups) :
        /\ anonLookups[j] >= anonLookups[i] - ANON_SEARCH_WINDOW
        /\ anonLookups[j] <= anonLookups[i]}

\* C25 as stated: after any sequence of attempts no 24-hour window holds more
\* than 3 lookups started by a visitor who is not signed in.
C25_AnonLimit ==
    \A i \in 1..Len(anonLookups) : Cardinality(LookupsInWindow(i)) <= ANON_SEARCH_LIMIT

RecordedInWindow ==
    Cardinality({i \in 1..Len(anonStored) : anonStored[i] >= anonNow - ANON_SEARCH_WINDOW})

C25_AttemptStep ==
    (attempts' # attempts /\ ~isAuthenticated /\ ~storageDisabled) =>
        /\ anonLookups' # anonLookups =>
               /\ RecordedInWindow < ANON_SEARCH_LIMIT
               /\ anonLookups' = Append(anonLookups, anonNow)
               /\ Len(anonStored') > 0
               /\ anonStored'[Len(anonStored')] = anonNow
               /\ lookupsInFlight' = lookupsInFlight + 1
        /\ RecordedInWindow >= ANON_SEARCH_LIMIT =>
               /\ anonLookups' = anonLookups
               /\ anonStored' = anonStored
               /\ lookupsInFlight' = lookupsInFlight

C25_OutcomeStep ==
    lookupsInFlight' < lookupsInFlight => anonStored' = anonStored

\* C25, amended: as long as localStorage accepts reads and writes, a visitor
\* who is not signed in starts a lookup only with fewer than 3 searches
\* recorded in the 24 hours before, the search is recorded at the start of the
\* lookup and stays recorded whatever its outcome, an attempt over the limit
\* starts no lookup and records nothing, and no 24-hour window holds more
\* than 3 started lookups.
C25_AnonLimitWhileStored ==
    /\ [](~storageDisabled => C25_AnonLimit)
    /\ [][C25_AttemptStep /\ C25_OutcomeStep]_vars

\* Three lookups in the first hour, a refused attempt, and a fourth lookup
\* once the first has left the window.
C25_Witness ==
    /\ ~storageDisabled
    /\ ~isAuthenticated
    /\ Len(anonLookups) = 4
    /\ attempts = 5
    /\ anonLookups[3] <= 1
    /\ anonLookups[4] > ANON_SEARCH_WINDOW
    /\ Len(anonStored) = 3

\* Whether the preferences of user u make them paid now.
PaidNow(u) == u # NoUser /\ statusOf(prefs[u], subNow).isPaid

\* C26: RequirePaid shows its children only to a signed-in user whose own
\* preferences make them paid; in every state anybody else sees the loading
\* screen or a redirect.
C26_ChildrenOnlyForPaid ==
    RequirePaidView = "children" => (~authLoading /\ PaidNow(authUser))

\* The children shown to a signed-in user on the answer of their own query.
C26_Witness ==
    /\ RequirePaidView = "children"
    /\ PaidNow(authUser)
    /\ reported.user = authUser
    /\ ~effectPending

\* The queries in flight whose response would be used.
Live == {i \in 1..Len(queries) : ~queries[i].isCancelled}

\* The guard at rest for a signed-in user: the effect has run and every
\* query it did not cancel is answered.
Settled ==
    /\ mounted
    /\ ~effectPending
    /\ ~authLoading
    /\ subAuthenticated
    /\ Live = {}

C27_LatestReported ==
    Settled =>
        /\ reported = [qid |-> issued, user |-> authUser]
        /\ ~subLoading
        /\ \/ subData = Unpaid
           \/ /\ subData.hasFreeAccess = prefs[authUser].has_free_access
              /\ subData.subscriptionStatus = prefs[authUser].subscription_status
              /\ subData.currentPeriodEnd = prefs[authUser].current_period_end

\* The query a step answers is cancelled.
AnswersCancelled ==
    /\ Len(queries') < Len(queries)
    /\ \E i \in 1..Len(queries) :
          /\ queries[i].isCancelled
          /\ \A j \in 1..Len(queries') : queries'[j].qid # queries[i].qid

\* An answer that is used comes from the query issued last.
C27_AnswerStep ==
    /\ AnswersCancelled => UNCHANGED <<subLoading, subData, reported>>
    /\ (Len(queries') < Len(queries) /\ reported' # reported) => reported'.qid = issued

LookupsOf(calls, id) ==
    {i \in 1..Len(calls) : calls[i].tripId = id /\ calls[i].stage = "lookup"}

C28_OneInFlight ==
    \A id \in TripIds :
        /\ Cardinality(LookupsOf(tripCalls, id)) <= 1
        /\ LookupsOf(tripCalls, id) # {} => id \in requestedTrips

C28_LookupStep ==
    \A id \in TripIds :
        /\ Cardinality(LookupsOf(tripCalls', id)) > Cardinality(LookupsOf(tripCalls, id)) =>
               /\ pageTrips[id] = "plain"
               /\ LookupsOf(tripCalls, id) = {}
        /\ (lookupFailures' # lookupFailures
            /\ Cardinality(LookupsOf(tripCalls', id)) < Cardinality(LookupsOf(tripCalls, id))) =>
               /\ id \notin requestedTrips'
               /\ lookupsToStart([pageTrips EXCEPT ![id] = "plain"], requestedTrips') # {}

\* C28: for each trip id at most one lookup is in flight however the list
\* changes, a lookup starts only for a trip of the list without visaData, and
\* a failed lookup releases the id, so that the next run of the effect with
\* the trip in the list starts a lookup for it.
C28_LookupPerTrip == []C28_OneInFlight /\ [][C28_LookupStep]_vars

\* A second lookup in flight for a trip whose first lookup failed, the list
\* having changed in between.
C28_Witness ==
    /\ "t1" \in failedTrips
    /\ LookupsOf(tripCalls, "t1") # {}
    /\ pageTrips["t2"] = "stored"
    /\ LookupsOf(tripCalls, "t2") = {}
    /\ "t2" \in visaShown

\* C29: a card that shows an overstay shows 0 remaining days and an overstay
\* of at least one day; for a Schengen trip the overstay is the days used
\* beyond 90.
C29_OverstayConsistent ==
    (card # <<>> /\ card[1].isOverstayed) =>
        /\ card[1].remainingDays = <<0>>
        /\ card[1].overstayDays >= 1
        /\ stayTrip.isSchengen =>
               /\ calculateSchengenDaysUsed(trips, clock) > SchengenAllowance
               /\ card[1].overstayDays =
                      calculateSchengenDaysUsed(trips, clock) - SchengenAllowance
        /\ ~stayTrip.isSchengen =>
               calculateRemainingDays(stayTrip.startDate, duration, clock, utcOffset) = <<0>>

\* The card of an open Schengen trip on the 91st day used.
C29_Witness ==
    /\ card # <<>>
    /\ card[1].isOverstayed
    /\ stayTrip.isSchengen
    /\ card[1].overstayDays = 1
    /\ card[1].remainingDays = <<0>>

Answered(r) == routeReq[r].pc = "done"

\* The order file, cache, fetch; a request that finds the file reads no
\* cache and calls nothing; a page is written and served only from data that
\* passes isRenderableVisaData.
RouteOrder(r) ==
    /\ routeReq[r].calledExternal => routeReq[r].readCache
    /\ routeReq[r].readCache => ~routeReq[r].sawFile
    /\ (Answered(r) /\ routeReq[r].sawFile) =>
           /\ routeReq[r].status = 200
           /\ routeReq[r].source = "file"
    /\ (Answered(r) /\ routeReq[r].source = "fetch") => routeReq[r].calledExternal
    /\ (Answered(r) /\ routeReq[r].status = 200) =>
           /\ routeReq[r].page # <<>>
           /\ isRenderableVisaData(routeReq[r].page[1].visaData)
    /\ (Answered(r) /\ routeReq[r].status # 200) => routeReq[r].page = <<>>

RoutePages ==
    \A k \in RoutePairs :
        routeFiles[k] # <<>> => isRenderableVisaData(routeFiles[k][1].visaData)

\* A step of a request that arrives at a written page, and pages stay.
RouteFileStep ==
    /\ \A k \in RoutePairs : routeFiles[k] # <<>> => routeFiles'[k] # <<>>
    /\ \A r \in Requests :
          (routeReq[r].pc = "idle" /\ routeReq'[r].pc # "idle"
             /\ routeFiles[routeReq'[r].pair] # <<>>) =>
                /\ routeReq'[r].pc = "done"
                /\ routeReq'[r].status = 200
                /\ routeReq'[r].page = routeFiles[routeReq'[r].pair]
                /\ ~routeReq'[r].readCache
                /\ ~routeReq'[r].calledExternal

\* C30 as stated: file, then cache, then fetch; a written page serves every
\* later request without cache read or external call; 200 with a page only
\* for renderable data, and 404 otherwise.
C30_RouteOrder ==
    /\ [](\A r \in Requests :
            /\ RouteOrder(r)
            /\ Answered(r) => routeReq[r].status \in {200, 404})
    /\ []RoutePages
    /\ [][RouteFileStep]_vars

\* C30, amended: as stated, except that a request whose external call fails
\* (fetch rejects, or the body of a 2xx response is not JSON) is answered 500,
\* with no page written.
C30_RouteOrderOr500 ==
    /\ [](\A r \in Requests :
            /\ RouteOrder(r)
            /\ Answered(r) => routeReq[r].status \in {200, 404, 500}
            /\ (Answered(r) /\ routeReq[r].status = 500) =>
                   /\ routeReq[r].calledExternal
                   /\ routeFiles[routeReq[r].pair] # <<>> =>
                          \E q \in Requests \ {r} :
                              /\ routeReq[q].pair = routeReq[r].pair
                              /\ routeReq[q].status = 200)
    /\ []RoutePages
    /\ [][RouteFileStep]_vars

\* A request served from the page an earlier request built from a fetch,
\* after the cache entry written with it has expired.
C30_Witness ==
    /\ routeReq["r1"].source = "fetch"
    /\ routeReq["r2"].source = "file"
    /\ routeReq["r2"].pair = routeReq["r1"].pair
    /\ routeCache[routeReq["r1"].pair] # <<>>
    /\ routeCache[routeReq["r1"].pair][1].expires_at <= routeNow
    /\ routeReq["r2"].page = routeReq["r1"].page

====
